---- MODULE Spec2Model ----
(***************************************************************************)
(* A model of cmr-connector-lib: the three database connectors (Informix,  *)
(* SQL Server, Postgres), their delta (CDC) and full-scan generators,      *)
(* their connection handling, the batch pagination text, the type catalog  *)
(* and the Postgres query compiler.                                        *)
(*                                                                         *)
(* SQL text is modelled as a sequence of tokens (strings and numbers) so   *)
(* that the place of a keyword or of an argument in the text can be        *)
(* inspected.  A generator is modelled as a coroutine: it runs only        *)
(* between a request of its consumer (next()) and its next yield.          *)
(***************************************************************************)
EXTENDS Integers, Sequences, FiniteSets, TLC

VARIABLES
    \* ---- generators: fetch_deltas and stream_batch ----
    mode,        \* "deltas" | "stream" | "idle": which generator is modelled
    dialect,     \* "informix" | "sqlserver" | "postgres"
    table,       \* the rows of the (unchanging) table
    since_ts,    \* the watermark passed to fetch_deltas
    batch_size,  \* the batch_size argument
    offset,      \* fetch_deltas: the local variable offset
    execs,       \* the cursor.execute calls made so far (their offset, or "scan")
    scan,        \* stream_batch: the result of the open SELECT, in scan order
    spos,        \* stream_batch: number of rows of scan fetched so far
    buffer,      \* rows fetched and not handed to the consumer yet
    yielded,     \* the items handed to the consumer, in order
    gpc,         \* position of the generator
    fetched,     \* number of non-empty chunks fetched
    handed,      \* number of chunks fully handed to the consumer
    fetches,     \* number of fetchall / fetchmany calls
    gconn,       \* Postgres stream_batch: "none" | "open" | "closed"
    gcursor,     \* Postgres stream_batch: "none" | "open" | "closed"
    gerror,      \* "none" | "swallowed" | "propagated"
    \* ---- type catalog ----
    tfun,        \* the lookup function called, or "none"
    targ,        \* its argument
    tres,        \* the results of the calls made so far
    \* ---- operations that use a connection ----
    op,          \* the operation called, "<dialect>.<method>", or "none"
    cstep,       \* index of the next step of the operation
    cst,         \* "running" | "returned" | "raised" | "idle"
    conn,        \* the connection the operation opened: "none"|"open"|"closed"
    cursor,      \* the cursor the operation opened: "none"|"open"|"closed"
    txn,         \* "none" | "committed" | "rolledback"
    outcome,     \* "none" | "value" | "default" | "original" | "other"
    failedAt,    \* the step at which the collaborator raised, or "none"
    columns,     \* the catalog rows fetched by a schema operation
    result,      \* the column descriptors a schema operation returns
    \* ---- batch reads ----
    bcall,       \* the batch read called and its arguments
    bquery,      \* the SQL text it executes, as tokens
    bparams,     \* the parameters it executes the text with
    \* ---- query compiler ----
    qdata,       \* the query description given to build_query
    qinvert,     \* the invert_where argument
    qsql,        \* what build_query returned: pending, None or the SQL
    \* ---- clause builders called on their own ----
    kcall,       \* the builder called: its module, its name, its argument
    kres,        \* the results of the calls made so far
    \* ---- compilations that overlap ----
    rdescs,      \* the query descriptions the callers hold, by name
    rthreads,    \* the build_query call of each thread and its locals
    rdone,       \* the calls that returned: description, flag, result
    \* ---- manage_table_primary_keys ----
    pkcall,      \* the arguments of the call: columns, create
    pkpc,        \* position in manage_table_primary_keys, or "idle"
    pkconn,      \* the local conn: "none" | "open" | "closed"
    pkcursor,    \* the local cursor: "none" | "open" | "closed"
    pkdb,        \* the primary-key constraints of the table in the database
    pkfound,     \* the constraints the SELECT returned and the next to drop
    pkret,       \* what the call returned: <<>> or <<(status, code)>>
    pkfailed     \* the statement that raised, or "none"

gvars == <<mode, dialect, table, since_ts, batch_size, offset, execs, scan,
           spos, buffer, yielded, gpc, fetched, handed, fetches, gconn, gcursor,
           gerror>>

tvars == <<tfun, targ, tres>>

cvars == <<op, cstep, cst, conn, cursor, txn, outcome, failedAt, columns,
           result>>

bvars == <<bcall, bquery, bparams>>

qvars == <<qdata, qinvert, qsql>>

kvars == <<kcall, kres>>

rvars == <<rdescs, rthreads, rdone>>

pvars == <<pkcall, pkpc, pkconn, pkcursor, pkdb, pkfound, pkret, pkfailed>>

vars == <<gvars, tvars, cvars, bvars, qvars, kvars, rvars, pvars>>

\* What the actions of one component leave alone.
NonGen == <<tvars, cvars, bvars, qvars, kvars, rvars, pvars>>
NonTypes == <<gvars, cvars, bvars, qvars, kvars, rvars, pvars>>
NonConn == <<gvars, tvars, bvars, qvars, kvars, rvars, pvars>>
NonBatch == <<gvars, tvars, cvars, qvars, kvars, rvars, pvars>>
NonQuery == <<gvars, tvars, cvars, bvars, kvars, rvars, pvars>>
NonClause == <<gvars, tvars, cvars, bvars, qvars, rvars, pvars>>
NonRepeat == <<gvars, tvars, cvars, bvars, qvars, kvars, pvars>>
NonKeys == <<gvars, tvars, cvars, bvars, qvars, kvars, rvars>>

\* The components that are not exercised are at rest.
GenIdle ==
    /\ mode = "idle" /\ dialect = "none" /\ table = {} /\ since_ts = 0
    /\ batch_size = 0 /\ offset = 0 /\ execs = <<>> /\ scan = <<>>
    /\ spos = 0 /\ buffer = <<>> /\ yielded = <<>> /\ gpc = "idle"
    /\ fetched = 0 /\ handed = 0 /\ fetches = 0 /\ gconn = "none"
    /\ gcursor = "none" /\ gerror = "none"
TypesIdle == tfun = "none" /\ targ = "none" /\ tres = <<>>
ConnIdle ==
    /\ op = "none" /\ cstep = 0 /\ cst = "idle" /\ conn = "none"
    /\ cursor = "none" /\ txn = "none" /\ outcome = "none"
    /\ failedAt = "none" /\ columns = <<>> /\ result = <<>>
BatchIdle == bcall = <<>> /\ bquery = <<>> /\ bparams = <<>>
QueryIdle == qdata = <<>> /\ qinvert = FALSE /\ qsql = <<>>

ClauseIdle == kcall = <<>> /\ kres = <<>>

RepeatIdle == rdescs = <<>> /\ rthreads = <<>> /\ rdone = {}

KeysIdle ==
    /\ pkcall = <<>> /\ pkpc = "idle" /\ pkconn = "none" /\ pkcursor = "none"
    /\ pkdb = <<>> /\ pkfound = <<>> /\ pkret = <<>> /\ pkfailed = "none"

NonGenIdle == TypesIdle /\ ConnIdle /\ BatchIdle /\ QueryIdle /\ ClauseIdle
                /\ RepeatIdle /\ KeysIdle
NonTypesIdle == GenIdle /\ ConnIdle /\ BatchIdle /\ QueryIdle /\ ClauseIdle
                /\ RepeatIdle /\ KeysIdle
NonConnIdle == GenIdle /\ TypesIdle /\ BatchIdle /\ QueryIdle /\ ClauseIdle
                /\ RepeatIdle /\ KeysIdle
NonBatchIdle == GenIdle /\ TypesIdle /\ ConnIdle /\ QueryIdle /\ ClauseIdle
                /\ RepeatIdle /\ KeysIdle
NonQueryIdle == GenIdle /\ TypesIdle /\ ConnIdle /\ BatchIdle /\ ClauseIdle
                /\ RepeatIdle /\ KeysIdle
NonClauseIdle ==
    /\ GenIdle /\ TypesIdle /\ ConnIdle /\ BatchIdle /\ QueryIdle
    /\ RepeatIdle /\ KeysIdle
NonRepeatIdle ==
    /\ GenIdle /\ TypesIdle /\ ConnIdle /\ BatchIdle /\ QueryIdle
    /\ ClauseIdle /\ KeysIdle
NonKeysIdle ==
    /\ GenIdle /\ TypesIdle /\ ConnIdle /\ BatchIdle /\ QueryIdle
    /\ ClauseIdle /\ RepeatIdle

-----------------------------------------------------------------------------
(* Bounds of the model *)

MaxRows == 3      \* a table holds at most MaxRows rows
MaxTs == 2        \* Date_operation values are 1..MaxTs, watermarks 0..MaxTs
MaxBatch == 2     \* batch_size is 1..MaxBatch
MaxCalls == 2     \* a lookup is repeated at most MaxCalls times
MaxCols == 2      \* a described table has at most MaxCols columns
MaxOffset == 2    \* a batch read is called with offset 0..MaxOffset
MaxLimit == 2     \* a batch read is called with limit 1..MaxLimit
MaxConds == 3     \* a clause builder is given at most MaxConds conditions
MaxBuilds == 3    \* build_query is called at most MaxBuilds times

Dialects == {"informix", "sqlserver", "postgres"}
Keys == {1, 2}                \* values of the (possibly composite) primary key
Payloads == {"a", "b"}        \* the other columns of a row
Stamps == 1..MaxTs

Row == [pk : Keys, ts : Stamps, v : Payloads]
Tables == {t \in SUBSET Row : Cardinality(t) <= MaxRows}

Min(a, b) == IF a < b THEN a ELSE b

Range(s) == {s[i] : i \in DOMAIN s}

\* All the orders in which a database may return the rows of S under
\* ORDER BY pk: sorted by key, rows of equal key in any order.
OrderedByKey(S) ==
    LET n == Cardinality(S)
    IN {s \in [1..n -> S] :
          /\ \A i, j \in 1..n : i # j => s[i] # s[j]
          /\ \A i, j \in 1..n : i < j => s[i].pk <= s[j].pk}

\* OFFSET off / LIMIT lim (SKIP off FIRST lim) applied to an ordered result.
Page(res, off, lim) ==
    IF off >= Len(res) THEN <<>>
    ELSE SubSeq(res, off + 1, Min(off + lim, Len(res)))

-----------------------------------------------------------------------------
(* The delta queries of fetch_deltas, conceptually executed *)

\* WHERE Date_operation > ?
NewerThan(T) == {r \in table : r.ts > T}

\* SELECT MAX(lt2.Date_operation) FROM log lt2 WHERE lt2.pk = lt1.pk
\*   AND lt2.Date_operation > ?        (NULL, here 0, when no such row)
MaxNewerTs(k, T) ==
    LET S == {r.ts : r \in {x \in NewerThan(T) : x.pk = k}}
    IN IF S = {} THEN 0 ELSE CHOOSE m \in S : \A x \in S : x <= m

\* Informix: the rows whose Date_operation equals the correlated MAX.
InformixDeltaRows(T) ==
    {r \in table : r.ts = MaxNewerTs(r.pk, T) /\ r.ts > T}

\* SQL Server: ROW_NUMBER() OVER (PARTITION BY pk ORDER BY Date_operation
\* DESC), WHERE rn = 1.  The sets of rows that can have rank 1: one row of
\* the greatest Date_operation for each key, whichever the engine ranks first.
RankOneChoices(T) ==
    LET ks == {r.pk : r \in NewerThan(T)}
        top(k) == {r \in NewerThan(T) : r.pk = k /\ r.ts = MaxNewerTs(k, T)}
    IN {S \in SUBSET NewerThan(T) :
          /\ \A r \in S : r \in top(r.pk)
          /\ \A k \in ks : Cardinality({r \in S : r.pk = k}) = 1}

\* Postgres: DISTINCT ON (pk) ... ORDER BY pk, Date_operation DESC keeps the
\* first row of each key in that order.
DistinctOnChoices(T) == RankOneChoices(T)

\* The full ordered results one execution of the dialect's delta query can
\* produce before pagination.
DeltaResults(d, T) ==
    CASE d = "informix"  -> OrderedByKey(InformixDeltaRows(T))
      [] d = "sqlserver" -> UNION {OrderedByKey(S) : S \in RankOneChoices(T)}
      [] d = "postgres"  -> UNION {OrderedByKey(S) : S \in DistinctOnChoices(T)}

\* offset += batch_size
NextOffset(off, bs) == off + bs

\* A producer that runs ahead of its consumer (a thread filling a queue).
EagerProducer == gpc \in {"running", "suspended"}

\* A generator body runs only while a next() of its consumer is pending.
ProducerEnabled == gpc = "running"

\* Ending the loop on a short chunk: if len(rows) < batch_size: break
LoopEndsOnShortChunk(rows) == Len(rows) < batch_size

\* if not rows: break
LoopEnds(rows) == rows = <<>>

\* cursor.fetchmany(n) on a cursor that has delivered pos rows of res.
FetchMany(res, pos, n) == Page(res, pos, n)

\* All the orders in which SELECT * FROM table (no ORDER BY) may scan S.
ScanOrders(S) ==
    LET n == Cardinality(S)
    IN {s \in [1..n -> S] : \A i, j \in 1..n : i # j => s[i] # s[j]}

-----------------------------------------------------------------------------
(* The type catalog (sql_connector_utils.py) *)

\* Python's None where a type code or a type name is expected.
NoneInt == 0 - 1
NoneStr == "<None>"

\* informix_to_ts of cast_informix_to_typescript_types
informix_to_ts ==
    0 :> "string" @@ 1 :> "number" @@ 2 :> "number" @@ 3 :> "number" @@
    4 :> "number" @@ 5 :> "number" @@ 6 :> "number" @@ 7 :> "Date" @@
    8 :> "number" @@ 9 :> "null" @@ 10 :> "Date" @@ 11 :> "binary" @@
    12 :> "string" @@ 13 :> "string" @@ 14 :> "string" @@ 15 :> "string" @@
    16 :> "string" @@ 17 :> "number" @@ 18 :> "number" @@ 19 :> "string[]" @@
    20 :> "string[]" @@ 21 :> "string[]" @@ 22 :> "Record<string, any>" @@
    23 :> "any[]" @@ 24 :> "Record<string, any>" @@ 25 :> "number" @@
    26 :> "number" @@ 27 :> "string" @@ 28 :> "boolean" @@ 31 :> "binary" @@
    32 :> "boolean" @@ 35 :> "string" @@ 36 :> "binary" @@ 37 :> "string" @@
    40 :> "string" @@ 41 :> "boolean" @@ 42 :> "string" @@ 43 :> "string" @@
    45 :> "boolean" @@ 52 :> "number" @@ 53 :> "number" @@ 256 :> "string" @@
    258 :> "string" @@ 262 :> "number" @@ 263 :> "Date" @@ 269 :> "string" @@
    2061 :> "string" @@ 4117 :> "Record<string, any>" @@
    4118 :> "Record<string, any>"

\* informix_to_pg of cast_informix_to_postgresql_type
informix_to_pg ==
    0 :> "CHAR" @@ 1 :> "SMALLINT" @@ 2 :> "INTEGER" @@
    3 :> "DOUBLE PRECISION" @@ 4 :> "REAL" @@ 5 :> "DECIMAL" @@
    6 :> "SERIAL" @@ 7 :> "DATE" @@ 8 :> "NUMERIC" @@ 9 :> "TEXT" @@
    10 :> "TIMESTAMP" @@ 11 :> "BYTEA" @@ 12 :> "TEXT" @@ 13 :> "VARCHAR" @@
    14 :> "INTERVAL" @@ 15 :> "CHAR" @@ 16 :> "VARCHAR" @@ 17 :> "BIGINT" @@
    18 :> "BIGSERIAL" @@ 19 :> "TEXT[]" @@ 20 :> "TEXT[]" @@
    21 :> "TEXT[]" @@ 22 :> "JSONB" @@ 23 :> "JSONB" @@ 24 :> "JSONB" @@
    25 :> "INTEGER" @@ 26 :> "BIGINT" @@ 27 :> "VARCHAR" @@
    28 :> "BOOLEAN" @@ 31 :> "BYTEA" @@ 32 :> "BOOLEAN" @@ 35 :> "TEXT" @@
    36 :> "BYTEA" @@ 37 :> "TEXT" @@ 40 :> "VARCHAR" @@ 41 :> "BOOLEAN" @@
    42 :> "TEXT" @@ 43 :> "VARCHAR" @@ 45 :> "BOOLEAN" @@ 52 :> "BIGINT" @@
    53 :> "BIGSERIAL" @@ 256 :> "TEXT" @@ 258 :> "TEXT" @@
    262 :> "INTEGER" @@ 263 :> "DATE" @@ 269 :> "VARCHAR" @@
    2061 :> "TEXT" @@ 4117 :> "JSONB" @@ 4118 :> "JSONB"

\* mapping of cast_postgres_to_typescript
pg_to_ts ==
    "bigint" :> "number" @@ "bigserial" :> "number" @@ "bool" :> "boolean" @@
    "boolean" :> "boolean" @@ "char" :> "string" @@
    "character" :> "string" @@ "character varying" :> "string" @@
    "citext" :> "string" @@ "date" :> "Date" @@ "decimal" :> "number" @@
    "double precision" :> "number" @@ "integer" :> "number" @@
    "interval" :> "string" @@ "json" :> "any" @@ "jsonb" :> "any" @@
    "money" :> "string" @@ "numeric" :> "number" @@ "real" :> "number" @@
    "serial" :> "number" @@ "smallint" :> "number" @@
    "smallserial" :> "number" @@ "text" :> "string" @@ "time" :> "string" @@
    "time with time zone" :> "string" @@
    "time without time zone" :> "string" @@ "timestamp" :> "Datetime" @@
    "timestamp with time zone" :> "Datetime" @@
    "timestamp without time zone" :> "Datetime" @@ "uuid" :> "string" @@
    "varchar" :> "string"

\* sql_server_to_ts of cast_sqlserver_to_typescript_types
sql_server_to_ts ==
    "bigint" :> "number" @@ "binary" :> "string" @@ "bit" :> "boolean" @@
    "char" :> "string" @@ "date" :> "Date" @@ "datetime" :> "Datetime" @@
    "datetime2" :> "string" @@ "datetimeoffset" :> "string" @@
    "decimal" :> "number" @@ "float" :> "number" @@ "geography" :> "any" @@
    "geometry" :> "any" @@ "hierarchyid" :> "any" @@ "image" :> "string" @@
    "int" :> "number" @@ "money" :> "number" @@ "nchar" :> "string" @@
    "ntext" :> "string" @@ "numeric" :> "number" @@ "nvarchar" :> "string" @@
    "real" :> "number" @@ "rowversion" :> "string" @@
    "smalldatetime" :> "Datetime" @@ "smallint" :> "number" @@
    "smallmoney" :> "number" @@ "sql_variant" :> "any" @@
    "sysname" :> "string" @@ "text" :> "string" @@ "time" :> "string" @@
    "timestamp" :> "string" @@ "tinyint" :> "number" @@
    "uniqueidentifier" :> "string" @@ "varbinary" :> "string" @@
    "varchar" :> "string" @@ "xml" :> "string"

\* sql_server_to_pg of cast_sqlserver_to_postgresql_type
sql_server_to_pg ==
    "bigint" :> "BIGINT" @@ "binary" :> "BYTEA" @@ "bit" :> "BOOLEAN" @@
    "char" :> "CHAR" @@ "date" :> "DATE" @@ "datetime" :> "TIMESTAMP" @@
    "datetime2" :> "TIMESTAMP" @@ "datetimeoffset" :> "TIMESTAMPTZ" @@
    "decimal" :> "NUMERIC" @@ "float" :> "DOUBLE PRECISION" @@
    "geography" :> "GEOGRAPHY" @@ "geometry" :> "GEOMETRY" @@
    "hierarchyid" :> "LTREE" @@ "image" :> "BYTEA" @@ "int" :> "INTEGER" @@
    "integer" :> "INTEGER" @@ "money" :> "MONEY" @@ "nchar" :> "CHAR" @@
    "ntext" :> "TEXT" @@ "numeric" :> "NUMERIC" @@ "nvarchar" :> "VARCHAR" @@
    "real" :> "REAL" @@ "rowversion" :> "BYTEA" @@
    "smalldatetime" :> "TIMESTAMP" @@ "smallint" :> "SMALLINT" @@
    "smallmoney" :> "MONEY" @@ "sql_variant" :> "JSONB" @@
    "sysname" :> "TEXT" @@ "text" :> "TEXT" @@ "time" :> "TIME" @@
    "timestamp" :> "BYTEA" @@ "tinyint" :> "SMALLINT" @@
    "uniqueidentifier" :> "UUID" @@ "varbinary" :> "BYTEA" @@
    "varchar" :> "VARCHAR" @@ "xml" :> "XML"

\* d[key]: a lookup without a default raises KeyError for an unlisted key.
LookupOrKeyError(d, key) == IF key \in DOMAIN d THEN d[key] ELSE "KeyError"

\* d.get(key, default)
DictGet(d, key, default) == IF key \in DOMAIN d THEN d[key] ELSE default

\* return informix_to_ts.get(informix_type, "unknown")
cast_informix_to_typescript_types(informix_type) ==
    DictGet(informix_to_ts, informix_type, "unknown")

\* base_type = informix_type % 256 (TypeError for None);
\* return informix_to_pg.get(base_type, "TEXT")
cast_informix_to_postgresql_type(informix_type) ==
    IF informix_type = NoneInt THEN "TypeError"
    ELSE DictGet(informix_to_pg, informix_type % 256, "TEXT")

cast_postgres_to_typescript_strict(data_type) ==
    IF data_type = "USER-DEFINED" THEN "string"
    ELSE LookupOrKeyError(pg_to_ts, data_type)

\* if data_type == "USER-DEFINED": return "string"
\* return mapping.get(data_type, "any")
cast_postgres_to_typescript(data_type) ==
    IF data_type = "USER-DEFINED" THEN "string"
    ELSE DictGet(pg_to_ts, data_type, "any")

\* return sql_server_to_ts.get(sql_type, "any")
cast_sqlserver_to_typescript_types(sql_type) ==
    DictGet(sql_server_to_ts, sql_type, "any")

cast_sqlserver_to_postgresql_type_strict(sql_server_type) ==
    LookupOrKeyError(sql_server_to_pg, sql_server_type)

\* return sql_server_to_pg.get(sql_server_type, "TEXT")
cast_sqlserver_to_postgresql_type(sql_server_type) ==
    DictGet(sql_server_to_pg, sql_server_type, "TEXT")

\* The values the TypeScript-type lookups can return.
TsTypes ==
    {"string", "number", "boolean", "Date", "Datetime", "binary", "string[]",
     "any[]", "Record<string, any>", "null", "unknown", "any"}

\* The type codes and names the lookups are applied to: every listed one,
\* unlisted ones around them, and None.
InformixCodes ==
    (0..60) \cup (250..275) \cup {512, 2061, 2062, 4117, 4118, 4119}
        \cup {NoneInt}
PostgresNames ==
    DOMAIN pg_to_ts \cup {"USER-DEFINED", "geometry", "INTEGER", "ARRAY",
                          NoneStr}
SqlServerNames ==
    DOMAIN sql_server_to_ts \cup {"INT", "mytype", "integer", NoneStr}

TypeArgs(f) ==
    CASE f = "cast_informix_to_typescript_types" -> InformixCodes
      [] f = "cast_postgres_to_typescript" -> PostgresNames
      [] f = "cast_sqlserver_to_typescript_types" -> SqlServerNames
      [] f = "cast_informix_to_postgresql_type" -> InformixCodes
      [] f = "cast_sqlserver_to_postgresql_type" ->
             SqlServerNames \cup DOMAIN sql_server_to_pg

TsLookups ==
    {"cast_informix_to_typescript_types", "cast_postgres_to_typescript",
     "cast_sqlserver_to_typescript_types"}

DdlLookups ==
    {"cast_informix_to_postgresql_type", "cast_sqlserver_to_postgresql_type"}

Lookups == TsLookups \cup DdlLookups

ApplyLookup(f, x) ==
    CASE f = "cast_informix_to_typescript_types" ->
             cast_informix_to_typescript_types(x)
      [] f = "cast_postgres_to_typescript" -> cast_postgres_to_typescript(x)
      [] f = "cast_sqlserver_to_typescript_types" ->
             cast_sqlserver_to_typescript_types(x)
      [] f = "cast_informix_to_postgresql_type" ->
             cast_informix_to_postgresql_type(x)
      [] f = "cast_sqlserver_to_postgresql_type" ->
             cast_sqlserver_to_postgresql_type(x)

\* The lookup table of each function.
LookupTable(f) ==
    CASE f = "cast_informix_to_typescript_types" -> informix_to_ts
      [] f = "cast_postgres_to_typescript" -> pg_to_ts
      [] f = "cast_sqlserver_to_typescript_types" -> sql_server_to_ts
      [] f = "cast_informix_to_postgresql_type" -> informix_to_pg
      [] f = "cast_sqlserver_to_postgresql_type" -> sql_server_to_pg

TypesInit ==
    /\ tfun \in Lookups
    /\ targ \in TypeArgs(tfun)
    /\ tres = <<>>
    /\ NonTypesIdle

\* One more call of the lookup on the same argument; the results of the
\* calls are kept in order.
CallLookup ==
    /\ tfun \in Lookups
    /\ Len(tres) < MaxCalls
    /\ tres' = Append(tres, ApplyLookup(tfun, targ))
    /\ UNCHANGED <<tfun, targ>>
    /\ UNCHANGED NonTypes

SpecTypes == TypesInit /\ [][CallLookup]_vars

-----------------------------------------------------------------------------
(* The generators *)

GenInit(m) ==
    /\ mode = m
    /\ NonGenIdle
    /\ dialect \in Dialects
    /\ table \in Tables
    /\ since_ts \in (IF m = "deltas" THEN 0..MaxTs ELSE {0})
    /\ batch_size \in 1..MaxBatch
    /\ offset = 0
    /\ execs = <<>>
    /\ scan = <<>>
    /\ spos = 0
    /\ buffer = <<>>
    /\ yielded = <<>>
    /\ gpc = "created"
    /\ fetched = 0
    /\ handed = 0
    /\ fetches = 0
    /\ gconn = "none"
    /\ gcursor = "none"
    /\ gerror = "none"

\* The consumer calls next() on the generator.
Request ==
    /\ mode \in {"deltas", "stream"}
    /\ UNCHANGED NonGen
    /\ gpc \in {"created", "suspended"}
    /\ gpc' = "running"
    /\ UNCHANGED <<mode, dialect, table, since_ts, batch_size, offset, execs,
                   scan, spos, buffer, yielded, fetched, handed, fetches,
                   gconn, gcursor, gerror>>

\* The consumer stops iterating and closes (or drops) the generator:
\* GeneratorExit is raised at the yield, which no "except Exception" catches;
\* the finally block of Postgres stream_batch runs.
Stop ==
    /\ mode \in {"deltas", "stream"}
    /\ UNCHANGED NonGen
    /\ gpc \in {"created", "suspended"}
    /\ gpc' = "closed"
    /\ gcursor' = IF gcursor = "open" THEN "closed" ELSE gcursor
    /\ gconn' = IF gconn = "open" THEN "closed" ELSE gconn
    /\ UNCHANGED <<mode, dialect, table, since_ts, batch_size, offset, execs,
                   scan, spos, buffer, yielded, fetched, handed, fetches,
                   gerror>>

\* fetch_deltas: one turn of the while loop up to the first yield:
\* (offset += batch_size after a chunk;) cursor.execute(sql, ...);
\* rows = cursor.fetchall(); if not rows: break
DeltaExecute ==
    /\ mode = "deltas"
    /\ UNCHANGED NonGen
    /\ ProducerEnabled
    /\ buffer = <<>>
    /\ LET off == IF execs = <<>> THEN offset
                  ELSE NextOffset(offset, batch_size)
       IN /\ offset' = off
          /\ execs' = Append(execs, off)
          /\ fetches' = fetches + 1
          /\ \E res \in DeltaResults(dialect, since_ts) :
                LET rows == Page(res, off, batch_size)
                IN IF LoopEnds(rows)
                   THEN /\ gpc' = "done"
                        /\ UNCHANGED <<buffer, fetched>>
                   ELSE /\ buffer' = rows
                        /\ fetched' = fetched + 1
                        /\ UNCHANGED gpc
    /\ UNCHANGED <<mode, dialect, table, since_ts, batch_size, scan, spos,
                   yielded, handed, gconn, gcursor, gerror>>

\* fetch_deltas: cursor.execute raises; nothing catches it.
DeltaExecuteFails ==
    /\ mode = "deltas"
    /\ UNCHANGED NonGen
    /\ ProducerEnabled
    /\ buffer = <<>>
    /\ LET off == IF execs = <<>> THEN offset
                  ELSE NextOffset(offset, batch_size)
       IN /\ offset' = off
          /\ execs' = Append(execs, off)
    /\ gpc' = "raised"
    /\ gerror' = "propagated"
    /\ UNCHANGED <<mode, dialect, table, since_ts, batch_size, scan, spos,
                   buffer, yielded, fetched, handed, fetches, gconn, gcursor>>

\* fetch_deltas: for row in rows: yield dict(zip(col_names, row))
DeltaYield ==
    /\ mode = "deltas"
    /\ UNCHANGED NonGen
    /\ ProducerEnabled
    /\ buffer # <<>>
    /\ yielded' = Append(yielded, Head(buffer))
    /\ buffer' = Tail(buffer)
    /\ handed' = IF Tail(buffer) = <<>> THEN handed + 1 ELSE handed
    /\ gpc' = "suspended"
    /\ UNCHANGED <<mode, dialect, table, since_ts, batch_size, offset, execs,
                   scan, spos, fetched, fetches, gconn, gcursor, gerror>>

DeltaNext == Request \/ Stop \/ DeltaExecute \/ DeltaExecuteFails \/ DeltaYield

SpecDelta == GenInit("deltas") /\ [][DeltaNext]_vars

-----------------------------------------------------------------------------
(* stream_batch *)

\* Postgres stream_batch opens its own connection and named cursor; the
\* Informix and SQL Server versions are handed the caller's cursor.
OwnsConnection == dialect = "postgres"

\* finally: if cursor: cursor.close(); if conn: conn.close()
\* (Postgres only; st is the state of the handle)
Finally(st) == IF st = "open" THEN "closed" ELSE st

\* Postgres: conn = self.get_connection()
StreamConnect ==
    /\ mode = "stream" /\ ProducerEnabled /\ OwnsConnection
    /\ UNCHANGED NonGen
    /\ gconn = "none"
    /\ gconn' = "open"
    /\ UNCHANGED <<mode, dialect, table, since_ts, batch_size, offset, execs,
                   scan, spos, buffer, yielded, gpc, fetched, handed, fetches,
                   gcursor, gerror>>

\* Postgres: cursor = conn.cursor(name=cursor_name); cursor.itersize = ...
StreamCursor ==
    /\ mode = "stream" /\ ProducerEnabled /\ OwnsConnection
    /\ UNCHANGED NonGen
    /\ gconn = "open" /\ gcursor = "none"
    /\ gcursor' = "open"
    /\ UNCHANGED <<mode, dialect, table, since_ts, batch_size, offset, execs,
                   scan, spos, buffer, yielded, gpc, fetched, handed, fetches,
                   gconn, gerror>>

\* cursor.execute(f"SELECT * FROM {table_name}")
StreamExecute ==
    /\ mode = "stream" /\ ProducerEnabled
    /\ UNCHANGED NonGen
    /\ OwnsConnection => gcursor = "open"
    /\ execs = <<>>
    /\ execs' = <<"scan">>
    /\ scan' \in ScanOrders(table)
    /\ UNCHANGED <<mode, dialect, table, since_ts, batch_size, offset, spos,
                   buffer, yielded, gpc, fetched, handed, fetches, gconn,
                   gcursor, gerror>>

\* rows = cursor.fetchmany(batch_size); if not rows: break
\* (after the loop the generator returns; Postgres runs its finally block)
StreamFetch ==
    /\ mode = "stream" /\ ProducerEnabled
    /\ UNCHANGED NonGen
    /\ execs # <<>> /\ buffer = <<>>
    /\ fetches' = fetches + 1
    /\ LET rows == FetchMany(scan, spos, batch_size)
       IN /\ spos' = spos + Len(rows)
          /\ IF LoopEnds(rows)
             THEN /\ gpc' = "done"
                  /\ gcursor' = Finally(gcursor)
                  /\ gconn' = Finally(gconn)
                  /\ UNCHANGED <<buffer, fetched>>
             ELSE /\ buffer' = rows
                  /\ fetched' = fetched + 1
                  /\ UNCHANGED <<gpc, gcursor, gconn>>
    /\ UNCHANGED <<mode, dialect, table, since_ts, batch_size, offset, execs,
                   scan, yielded, handed, gerror>>

\* yield rows
StreamYield ==
    /\ mode = "stream" /\ ProducerEnabled
    /\ UNCHANGED NonGen
    /\ buffer # <<>>
    /\ yielded' = Append(yielded, buffer)
    /\ buffer' = <<>>
    /\ handed' = handed + 1
    /\ gpc' = "suspended"
    /\ UNCHANGED <<mode, dialect, table, since_ts, batch_size, offset, execs,
                   scan, spos, fetched, fetches, gconn, gcursor, gerror>>

\* Any statement of the try block raises (get_connection, conn.cursor,
\* cursor.execute, cursor.fetchmany):
\*   except Exception as exc: logger.error(...); return
\* and the generator ends as if the scan were exhausted.
StreamFails ==
    /\ mode = "stream" /\ ProducerEnabled
    /\ UNCHANGED NonGen
    /\ buffer = <<>>
    /\ gerror' = "swallowed"
    /\ gpc' = "done"
    /\ gcursor' = Finally(gcursor)
    /\ gconn' = Finally(gconn)
    /\ UNCHANGED <<mode, dialect, table, since_ts, batch_size, offset, execs,
                   scan, spos, buffer, yielded, fetched, handed, fetches>>

StreamNext ==
    \/ Request \/ Stop \/ StreamConnect \/ StreamCursor \/ StreamExecute
    \/ StreamFetch \/ StreamYield \/ StreamFails

SpecStream == GenInit("stream") /\ [][StreamNext]_vars

GenNext ==
    \/ Request \/ Stop \/ DeltaExecute \/ DeltaExecuteFails \/ DeltaYield
    \/ StreamConnect \/ StreamCursor \/ StreamExecute \/ StreamFetch
    \/ StreamYield \/ StreamFails

SpecGen == (GenInit("deltas") \/ GenInit("stream")) /\ [][GenNext]_vars

-----------------------------------------------------------------------------
(* Operations that use a connection *)

\* The shape of an operation, read off its code:
\*   steps    the calls it makes on the collaborator, in order
\*              connect   self.get_connection()
\*              cursor    conn.cursor()
\*              connexec  connection.execute(query)  (makes a cursor and runs)
\*              execute   cursor.execute(...)   (reflect: metadata.reflect)
\*              fetch     cursor.fetchall() / fetchone() and the row mapping
\*              map       building the column descriptors from the rows
\*              commit    conn.commit()
\*              dbinfo, colquery   queries inside a try/except of their own
\*   tryFrom  index of the first step inside the try block
\*   onError  what the except clause does: "default" (log, return [] / 0 /
\*            False / an error status, after a rollback in the DDL
\*            operations), "reraise" (raise), "other" (raise of another
\*            exception), "none" (no except clause: try/finally)
\*   closes   whether a finally block closes the cursor and the connection
\*   kind     "batch" | "count" | "schema" | "other"
Shape(steps, tryFrom, onError, closes, kind) ==
    [steps |-> steps, tryFrom |-> tryFrom, onError |-> onError,
     closes |-> closes, kind |-> kind]

\* conn = get_connection(); cursor = conn.cursor(); try: execute, fetch
\* except ...; finally: cursor.close(); conn.close()
Guarded(onError, kind) ==
    Shape(<<"connect", "cursor", "execute", "fetch">>, 3, onError, TRUE, kind)

\* The same with the column descriptors built from the fetched rows.
GuardedMap == 
    Shape(<<"connect", "cursor", "execute", "fetch", "map">>, 3, "default",
          TRUE, "schema")

\* fetch_batch(cursor, ...): try: cursor.execute; return cursor.fetchall()
\* except: return []     (the cursor is the caller's)
OnCallerCursor == Shape(<<"execute", "fetch">>, 1, "default", FALSE, "batch")

\* conn = None; cursor = None; try: get_connection, cursor, execute, commit
\* except: rollback, return failure; finally: close what was opened
WholeInTry ==
    Shape(<<"connect", "cursor", "execute", "commit">>, 1, "default", TRUE,
          "other")

\* conn, cursor opened before the try; try: execute, commit
\* except: rollback; finally: close both
GuardedDDL ==
    Shape(<<"connect", "cursor", "execute", "commit">>, 3, "default", TRUE,
          "other")

OpShape(o) ==
    CASE o = "informix.extract_data_batch" ->
           Shape(<<"connect", "connexec", "fetch">>, 3, "default", TRUE,
                 "batch")
      [] o = "informix.fetch_batch" -> OnCallerCursor
      [] o = "informix.get_connection_tables" -> Guarded("default", "schema")
      [] o = "informix.get_connection_columns" -> Guarded("default", "schema")
      [] o = "informix.count_table_rows" -> Guarded("other", "count")
      [] o = "informix.get_database_schema" ->
           Shape(<<"connect", "cursor", "dbinfo", "execute", "fetch",
                   "colquery">>, 1, "other", FALSE, "schema")
      [] o = "informix.extract_table_schema" -> GuardedMap
      [] o = "informix.get_min_max_date" -> Guarded("reraise", "other")
      [] o = "sqlserver.ping" -> Guarded("default", "other")
      [] o = "sqlserver.extract_data_batch" -> Guarded("default", "batch")
      [] o = "sqlserver.fetch_batch" -> OnCallerCursor
      [] o = "sqlserver.get_connection_tables" -> Guarded("default", "schema")
      [] o = "sqlserver.get_connection_columns" ->
           Guarded("default", "schema")
      [] o = "sqlserver.count_table_rows" -> Guarded("default", "count")
      [] o = "sqlserver.get_min_max_date" -> Guarded("none", "other")
      [] o = "sqlserver.extract_table_schema" -> GuardedMap
      [] o = "sqlserver.get_database_schema" ->
           Shape(<<"connect", "execute">>, 1, "other", FALSE, "schema")
      [] o = "postgres.extract_data_batch" -> Guarded("default", "batch")
      [] o = "postgres.fetch_batch" -> OnCallerCursor
      [] o = "postgres.get_connection_tables" -> Guarded("default", "schema")
      [] o = "postgres.get_connection_columns" -> Guarded("default", "schema")
      [] o = "postgres.count_table_rows" -> Guarded("default", "count")
      [] o = "postgres.extract_table_schema" -> GuardedMap
      [] o = "postgres.get_view_columns" -> Guarded("default", "schema")
      [] o = "postgres.get_database_schema" ->
           Shape(<<"connect", "execute">>, 1, "other", FALSE, "schema")
      [] o = "postgres.create_schema_if_missing" -> GuardedDDL
      [] o = "postgres.create_table_if_missing" -> GuardedDDL
      [] o = "postgres.truncate_table" -> WholeInTry
      [] o = "postgres.manage_table_indexes" -> WholeInTry
      [] o = "postgres.manage_table_primary_keys" -> WholeInTry

Ops ==
    {"informix.extract_data_batch", "informix.fetch_batch",
     "informix.get_connection_tables", "informix.get_connection_columns",
     "informix.count_table_rows", "informix.get_database_schema",
     "informix.extract_table_schema", "informix.get_min_max_date",
     "sqlserver.ping", "sqlserver.extract_data_batch",
     "sqlserver.fetch_batch", "sqlserver.get_connection_tables",
     "sqlserver.get_connection_columns", "sqlserver.count_table_rows",
     "sqlserver.get_min_max_date", "sqlserver.extract_table_schema",
     "sqlserver.get_database_schema", "postgres.extract_data_batch",
     "postgres.fetch_batch", "postgres.get_connection_tables",
     "postgres.get_connection_columns", "postgres.count_table_rows",
     "postgres.extract_table_schema", "postgres.get_view_columns",
     "postgres.get_database_schema", "postgres.create_schema_if_missing",
     "postgres.create_table_if_missing", "postgres.truncate_table",
     "postgres.manage_table_indexes", "postgres.manage_table_primary_keys"}

SchemaOps ==
    {"informix.extract_table_schema", "sqlserver.extract_table_schema",
     "postgres.extract_table_schema"}

OpDialect(o) ==
    CASE o = "informix.extract_table_schema" -> "informix"
      [] o = "sqlserver.extract_table_schema" -> "sqlserver"
      [] o = "postgres.extract_table_schema" -> "postgres"

\* Steps whose failure is caught at once by a try/except of their own
\* (get_database_schema: "Could not get current database", "continue").
LocalCatch == {"dbinfo", "colquery"}

\* str.upper() and str.lower() on the names the model uses.
Upper(x) ==
    CASE x = "int" -> "INT" [] x = "varchar" -> "VARCHAR"
      [] x = "varbinary" -> "VARBINARY" [] x = "xml" -> "XML"
      [] x = "integer" -> "INTEGER" [] x = "text" -> "TEXT"
      [] x = "character varying(10)" -> "CHARACTER VARYING(10)"
      [] OTHER -> x
Lower(x) ==
    CASE x = "ID" -> "id" [] x = "Amt" -> "amt" [] OTHER -> x

\* The catalog rows (colno order) a table description query may return:
\* name, native type (None when the catalog gives NULL) and length.
ColNames == {"id", "ID", "amt"}
NativeTypes(d) ==
    CASE d = "informix" -> {2, 269, NoneInt}
      [] d = "sqlserver" -> {"int", "varchar", "varbinary", "xml", NoneStr}
      [] d = "postgres" -> {"integer", "text", NoneStr}
Lengths(d) == IF d = "sqlserver" THEN {0 - 1, 4} ELSE {4}
CatalogRow(d) == [name : ColNames, type : NativeTypes(d), length : Lengths(d)]
CatalogRows(d) ==
    UNION {[1..n -> CatalogRow(d)] : n \in 0..MaxCols}

\* The PostgreSQL type extract_table_schema gives a SQL Server column
\* ("RAISE" when row.data_type.upper() fails on None).
SqlServerPgType(row) ==
    IF row.type = NoneStr THEN "RAISE"
    ELSE LET sql_type == Upper(row.type)
         IN IF row.length = 0 - 1
            THEN CASE sql_type \in {"VARCHAR", "CHAR", "NVARCHAR", "NCHAR",
                                    "TEXT", "NTEXT"} -> "TEXT"
                   [] sql_type \in {"VARBINARY", "IMAGE"} -> "BYTEA"
                   [] sql_type = "XML" -> "XML"
                   [] OTHER -> "TEXT"
            ELSE cast_sqlserver_to_postgresql_type(row.type)

\* The type field of the descriptor of one catalog row, or "RAISE".
DescriptorType(d, row) ==
    CASE d = "informix" ->
           IF cast_informix_to_postgresql_type(row.type) = "TypeError"
           THEN "RAISE" ELSE cast_informix_to_postgresql_type(row.type)
      [] d = "sqlserver" -> SqlServerPgType(row)
      [] d = "postgres" ->
           IF row.type = NoneStr THEN "RAISE" ELSE Upper(row.type)

\* The loop (or list comprehension) that builds the descriptors: the rows in
\* order; SQL Server skips a row whose lower-cased name was seen already.
\* The other fields of a descriptor (nullable, default, primary_key,
\* foreign_key, is_index) are copied from the row as they are.
RECURSIVE BuildDescriptors(_, _, _, _, _)
BuildDescriptors(d, rows, i, seen, acc) ==
    IF i > Len(rows) THEN acc
    ELSE LET row == rows[i]
             ty == DescriptorType(d, row)
         IN IF ty = "RAISE" THEN "RAISE"
            ELSE IF d = "sqlserver" /\ Lower(row.name) \in seen
            THEN BuildDescriptors(d, rows, i + 1, seen, acc)
            ELSE BuildDescriptors(d, rows, i + 1, seen \cup {Lower(row.name)},
                     Append(acc, [position |-> i, name |-> row.name,
                                  type |-> ty, length |-> row.length]))

Describe(d, rows) == BuildDescriptors(d, rows, 1, {}, <<>>)

ConnInit ==
    /\ op \in Ops
    /\ cstep = 1 /\ cst = "running"
    /\ conn = "none" /\ cursor = "none" /\ txn = "none"
    /\ outcome = "none" /\ failedAt = "none"
    /\ columns = <<>> /\ result = <<>>
    /\ NonConnIdle

\* The operation returns normally: the finally block runs.
Return(sh, c, k) ==
    /\ outcome' = "value"
    /\ cst' = "returned"
    /\ conn' = IF sh.closes THEN Finally(c) ELSE c
    /\ cursor' = IF sh.closes THEN Finally(k) ELSE k
    /\ UNCHANGED cstep

\* An exception is raised at step i: outside the try block it leaves the
\* operation as it is; inside, the except clause and the finally block run.
Raise(sh, i) ==
    LET inTry == i >= sh.tryFrom
        out == IF ~inTry THEN "original"
               ELSE CASE sh.onError = "default" -> "default"
                      [] sh.onError = "reraise" -> "original"
                      [] sh.onError = "none" -> "original"
                      [] sh.onError = "other" -> "other"
    IN /\ outcome' = out
       /\ cst' = IF out = "default" THEN "returned" ELSE "raised"
       /\ conn' = IF inTry /\ sh.closes THEN Finally(conn) ELSE conn
       /\ cursor' = IF inTry /\ sh.closes THEN Finally(cursor) ELSE cursor
       /\ txn' = IF inTry /\ "commit" \in Range(sh.steps) /\ conn = "open"
                 THEN "rolledback" ELSE txn
       /\ UNCHANGED cstep

\* The next call on the collaborator succeeds.
ConnStep ==
    /\ cst = "running"
    /\ LET sh == OpShape(op)
           st == sh.steps[cstep]
           c == IF st = "connect" THEN "open" ELSE conn
           k == IF st \in {"cursor", "connexec"} THEN "open" ELSE cursor
       IN /\ st # "map"
          /\ txn' = IF st = "commit" THEN "committed" ELSE txn
          /\ IF st = "fetch" /\ op \in SchemaOps
             THEN columns' \in CatalogRows(OpDialect(op))
             ELSE UNCHANGED columns
          /\ IF cstep = Len(sh.steps)
             THEN Return(sh, c, k)
             ELSE /\ cstep' = cstep + 1
                  /\ conn' = c
                  /\ cursor' = k
                  /\ UNCHANGED <<cst, outcome>>
    /\ UNCHANGED <<op, failedAt, result>>
    /\ UNCHANGED NonConn

\* The next call on the collaborator raises.
ConnFail ==
    /\ cst = "running"
    /\ LET sh == OpShape(op)
           st == sh.steps[cstep]
       IN /\ st # "map"
          /\ failedAt' = st
          /\ IF st \in LocalCatch
             THEN /\ UNCHANGED txn
                  /\ IF cstep = Len(sh.steps)
                     THEN Return(sh, conn, cursor)
                     ELSE /\ cstep' = cstep + 1
                          /\ UNCHANGED <<cst, outcome, conn, cursor>>
             ELSE Raise(sh, cstep)
    /\ UNCHANGED <<op, columns, result>>
    /\ UNCHANGED NonConn

\* extract_table_schema builds the descriptors of the fetched rows and
\* returns them; an exception in the loop reaches the except clause, which
\* returns [].
ConnMap ==
    /\ cst = "running"
    /\ LET sh == OpShape(op)
           st == sh.steps[cstep]
           r == Describe(OpDialect(op), columns)
       IN /\ st = "map"
          /\ IF r = "RAISE"
             THEN /\ Raise(sh, cstep)
                  /\ result' = <<>>
             ELSE /\ Return(sh, conn, cursor)
                  /\ result' = r
                  /\ UNCHANGED txn
    /\ UNCHANGED <<op, failedAt, columns>>
    /\ UNCHANGED NonConn

ConnNext == ConnStep \/ ConnFail \/ ConnMap

SpecConn == ConnInit /\ [][ConnNext]_vars

\* The operations and the streaming generator, each run on its own.
IONext ==
    \/ Request \/ Stop \/ StreamConnect \/ StreamCursor \/ StreamExecute
    \/ StreamFetch \/ StreamYield \/ StreamFails
    \/ ConnStep \/ ConnFail \/ ConnMap

SpecIO == (GenInit("stream") \/ ConnInit) /\ [][IONext]_vars

-----------------------------------------------------------------------------
(* The text of the batch reads *)

\* SQL text is a sequence of tokens (the words of the f-string, with the
\* formatted arguments in their places); {offset} and {limit} are formatted
\* by str().
SqlJoin(parts, sep) ==
    LET RECURSIVE Go(_)
        Go(i) == IF i > Len(parts) THEN <<>>
                 ELSE (IF i > 1 THEN sep ELSE <<>>) \o parts[i] \o Go(i + 1)
    IN Go(1)

\* dict.get(key, default)
Get(r, key, default) == IF key \in DOMAIN r THEN r[key] ELSE default

\* A query description is a record with the keys that are present; a
\* missing key is absent from the record.  Names, operators and connectors
\* are strings (NoneStr for an explicit None); the value and secondValue of
\* a condition are Python values: None, a string (its characters), a number
\* or a list of values.
PyNone == [t |-> "none"]
PyS(chars) == [t |-> "str", s |-> chars]
PyN(n) == [t |-> "num", n |-> n]
PyL(items) == [t |-> "list", items |-> items]

\* An element of a list that is not a dict: .get raises AttributeError.
NonDict == [nondict |-> TRUE]
IsDict(x) == "nondict" \notin DOMAIN x

\* bool(s) of a string or None
Truthy(s) == s \notin {NoneStr, ""}

\* {s} in an f-string, for a string or None
Fmt(s) == IF s = NoneStr THEN "None" ELSE s

\* sep.join(strs)
StrJoin(strs, sep) ==
    LET RECURSIVE Go(_)
        Go(i) == IF i > Len(strs) THEN ""
                 ELSE (IF i > 1 THEN sep ELSE "") \o strs[i] \o Go(i + 1)
    IN Go(1)

\* str(value) / {value} in an f-string
RECURSIVE PyRepr(_)
PyRepr(v) ==
    CASE v.t = "none" -> "None"
      [] v.t = "str" ->
           IF \E i \in DOMAIN v.s : v.s[i] = "'"
           THEN "\"" \o StrJoin(v.s, "") \o "\""
           ELSE "'" \o StrJoin(v.s, "") \o "'"
      [] v.t = "num" -> ToString(v.n)
      [] v.t = "list" ->
           "[" \o StrJoin([i \in DOMAIN v.items |-> PyRepr(v.items[i])], ", ")
           \o "]"
PyStr(v) == IF v.t = "str" THEN StrJoin(v.s, "") ELSE PyRepr(v)

\* bool(value)
PyTruthy(v) ==
    CASE v.t = "none" -> FALSE
      [] v.t = "str" -> v.s # <<>>
      [] v.t = "num" -> v.n # 0
      [] v.t = "list" -> v.items # <<>>

\* The elements "for v in value" goes through (a string gives its
\* characters).
PyIter(v) ==
    CASE v.t = "list" -> v.items
      [] v.t = "str" -> [i \in DOMAIN v.s |-> PyS(<<v.s[i]>>)]
      [] OTHER -> <<>>

\* re.match(r"^[A-Za-z_][A-Za-z0-9_]*$", col_name), on the names used here.
ValidColumnName(n) == n \in {"status", "amt", "id", "_x1"}

\* str(raw_operator).strip().upper().replace(" ", "_"), on the operators
\* used here.
OpKey(raw) ==
    CASE raw = "equals" -> "EQUALS" [] raw = "is null" -> "IS_NULL"
      [] raw = " = " -> "=" [] raw = "between" -> "BETWEEN"
      [] raw = "NOT BETWEEN" -> "NOT_BETWEEN" [] raw = "in" -> "IN"
      [] raw = "not in" -> "NOT_IN" [] raw = "contains" -> "CONTAINS"
      [] raw = "STARTS WITH" -> "STARTS_WITH"
      [] raw = "ends with" -> "ENDS_WITH" [] raw = "matches" -> "MATCHES"
      [] OTHER -> raw

\* op_map of _build_filters_clause: the operators with the SQL operator
\* alone.
FilterOps ==
    ("=" :> "=") @@ ("EQUALS" :> "=") @@ ("!=" :> "!=")
    @@ ("NOT_EQUALS" :> "!=") @@ (">" :> ">") @@ ("GREATER_THAN" :> ">")
    @@ ("<" :> "<") @@ ("LESS_THAN" :> "<") @@ (">=" :> ">=")
    @@ ("GREATER_THAN_OR_EQUAL" :> ">=") @@ ("<=" :> "<=")
    @@ ("LESS_THAN_OR_EQUAL" :> "<=") @@ ("IS_NULL" :> "IS NULL")
    @@ ("IS_NOT_NULL" :> "IS NOT NULL") @@ ("BETWEEN" :> "BETWEEN")
    @@ ("NOT_BETWEEN" :> "NOT BETWEEN") @@ ("IN" :> "IN")
    @@ ("NOT_IN" :> "NOT IN")

\* op_map: the operators with a tuple (SQL operator, pattern builder); the
\* pattern is given by what it puts before and after the value.
PatternOps ==
    ("CONTAINS" :> [sql |-> "LIKE", pre |-> <<"%">>, post |-> <<"%">>])
    @@ ("NOT_CONTAINS" :> [sql |-> "NOT LIKE", pre |-> <<"%">>,
                           post |-> <<"%">>])
    @@ ("NOT_CONTAIN" :> [sql |-> "NOT LIKE", pre |-> <<"%">>,
                          post |-> <<"%">>])
    @@ ("STARTS_WITH" :> [sql |-> "LIKE", pre |-> <<>>, post |-> <<"%">>])
    @@ ("ENDS_WITH" :> [sql |-> "LIKE", pre |-> <<"%">>, post |-> <<>>])
    @@ ("MATCHES" :> [sql |-> "~", pre |-> <<>>, post |-> <<>>])
    @@ ("NOT_MATCHES" :> [sql |-> "!~", pre |-> <<>>, post |-> <<>>])

\* The characters of str(v).
PyChars(v) == IF v.t = "str" THEN v.s ELSE <<PyStr(v)>>

\* s.strip(), for blanks
RECURSIVE Strip(_)
Strip(chars) ==
    IF chars = <<>> THEN <<>>
    ELSE IF Head(chars) = " " THEN Strip(Tail(chars))
    ELSE IF chars[Len(chars)] = " "
    THEN Strip(SubSeq(chars, 1, Len(chars) - 1))
    ELSE chars

\* s.split(",")
RECURSIVE SplitCommas(_)
SplitCommas(chars) ==
    IF \A i \in DOMAIN chars : chars[i] # "," THEN <<chars>>
    ELSE LET i == CHOOSE j \in DOMAIN chars :
                     chars[j] = "," /\ \A k \in 1..(j - 1) : chars[k] # ","
         IN <<SubSeq(chars, 1, i - 1)>>
            \o SplitCommas(SubSeq(chars, i + 1, Len(chars)))

\* The values of an IN filter: [v.strip() for v in values.split(",") if
\* v.strip()] for a string, the list itself for a list, and nothing (the
\* filter is skipped) for anything else.
InValues(value) ==
    CASE value.t = "str" ->
           LET parts == SplitCommas(value.s)
               kept == SelectSeq(parts, LAMBDA part : Strip(part) # <<>>)
           IN [i \in DOMAIN kept |-> PyS(Strip(kept[i]))]
      [] value.t = "list" -> value.items
      [] OTHER -> <<>>

\* One placeholder, whatever the number of values.
PlaceholdersOne(n) == <<"(", "%s", ")">>

\* ", ".join(["%s"] * n), between parentheses
Placeholders(n) ==
    <<"(">> \o SqlJoin([i \in 1..n |-> <<"%s">>], <<",">>) \o <<")">>

\* The clause and the parameters one filter contributes (none when it is
\* skipped).
FilterClause(condition) ==
    LET col_name == Get(Get(condition, "column", <<>>), "name", NoneStr)
        raw_operator == Get(condition, "operator", NoneStr)
        op_key == IF raw_operator \in {NoneStr, ""} THEN NoneStr
                  ELSE OpKey(raw_operator)
        value == Get(condition, "value", PyNone)
        value_to == Get(condition, "valueTo", PyNone)
        column == "\"" \o col_name \o "\""
        skip == [clause |-> <<>>, params |-> <<>>]
    IN IF ~ValidColumnName(col_name) THEN skip
       ELSE IF op_key \notin DOMAIN FilterOps \cup DOMAIN PatternOps THEN skip
       ELSE IF op_key \in {"BETWEEN", "NOT_BETWEEN"}
       THEN IF value.t = "none" \/ value_to.t = "none" THEN skip
            ELSE [clause |-> <<column, FilterOps[op_key], "%s", "AND", "%s">>,
                  params |-> <<value, value_to>>]
       ELSE IF op_key \in {"IN", "NOT_IN"}
       THEN IF InValues(value) = <<>> THEN skip
            ELSE [clause |-> <<column, FilterOps[op_key]>>
                             \o Placeholders(Len(InValues(value))),
                  params |-> InValues(value)]
       ELSE IF op_key \in {"IS_NULL", "IS_NOT_NULL"}
       THEN [clause |-> <<column, FilterOps[op_key]>>, params |-> <<>>]
       ELSE IF value.t = "none" THEN skip
       ELSE IF op_key \in DOMAIN PatternOps
       THEN [clause |-> <<column, PatternOps[op_key].sql, "%s">>,
             params |-> <<IF op_key \in {"MATCHES", "NOT_MATCHES"} THEN value
                          ELSE PyS(PatternOps[op_key].pre \o PyChars(value)
                                   \o PatternOps[op_key].post)>>]
       ELSE [clause |-> <<column, FilterOps[op_key], "%s">>,
             params |-> <<value>>]

\* The filters payload: None, a list, a string (blank, not JSON, JSON of
\* something else than an array, JSON of an array: items is what
\* json.loads returns) or a value of another type.
PayloadKinds ==
    {"none", "list", "blank", "not_json", "json_other", "json_array", "other"}

Payload(kind, items) == [kind |-> kind, items |-> items]

\* parsed_filters
ParsedFilters(filters) ==
    IF filters.kind \in {"list", "json_array"} THEN filters.items ELSE <<>>

\* _build_filters_clause(filters): (where_clause, params).
_build_filters_clause(filters) ==
    LET parsed_filters == ParsedFilters(filters)
        kept == SelectSeq([i \in DOMAIN parsed_filters |->
                              FilterClause(parsed_filters[i])],
                          LAMBDA c : c.clause # <<>>)
        clauses == [i \in DOMAIN kept |-> kept[i].clause]
        params == SqlJoin([i \in DOMAIN kept |-> kept[i].params], <<>>)
    IN [where_clause |-> IF clauses # <<>>
                         THEN <<"WHERE">> \o SqlJoin(clauses, <<"AND">>)
                         ELSE <<>>,
        params |-> params]

PostgresPageSwapped(o, l) == <<"OFFSET", ToString(l), "LIMIT", ToString(o)>>

\* The pagination words of each dialect.
InformixPage(o, l) == <<"SKIP", ToString(o), "FIRST", ToString(l)>>
PostgresPage(o, l) == <<"OFFSET", ToString(o), "LIMIT", ToString(l)>>
SqlServerPage(o, l) ==
    <<"OFFSET", ToString(o), "ROWS", "FETCH", "NEXT", ToString(l), "ROWS",
      "ONLY">>

\* The query text of extract_data_batch / fetch_batch of each connector.
BatchQuery(c) ==
    CASE c.dialect = "informix" ->
           <<"SELECT">> \o InformixPage(c.offset, c.limit)
           \o <<"*", "FROM", c.table_name>>
           \o (IF c.method = "extract_data_batch" THEN <<";">> ELSE <<>>)
      [] c.dialect = "postgres" ->
           <<"SELECT", "*", "FROM", c.table_name>>
           \o (IF c.method = "extract_data_batch"
               THEN _build_filters_clause(c.filters).where_clause
               ELSE <<>>)
           \o PostgresPage(c.offset, c.limit)
           \o (IF c.method = "extract_data_batch" THEN <<";">> ELSE <<>>)
      [] c.dialect = "sqlserver" ->
           <<"SELECT", "*", "FROM", c.table_name, "ORDER", "BY", "(SELECT",
             "NULL)">>
           \o SqlServerPage(c.offset, c.limit) \o <<";">>

\* The parameters given to cursor.execute (none but for the filters).
BatchParams(c) ==
    IF c.dialect = "postgres" /\ c.method = "extract_data_batch"
    THEN _build_filters_clause(c.filters).params
    ELSE <<>>

TableNames == {"t", "log"}

\* The filters the payloads are made of.
Filters ==
    {[column |-> [name |-> "status"], operator |-> "=",
      value |-> PyS(<<"x">>)],
     [column |-> [name |-> "bad name"], operator |-> "=",
      value |-> PyS(<<"x">>)],
     [column |-> [name |-> "amt"], operator |-> "is null"],
     [column |-> [name |-> "amt"], operator |-> "IS_NOT_NULL",
      value |-> PyN(1)],
     [column |-> [name |-> "id"], operator |-> "between", value |-> PyN(1),
      valueTo |-> PyN(5)],
     [column |-> [name |-> "id"], operator |-> "NOT BETWEEN",
      value |-> PyN(1)],
     [column |-> [name |-> "status"], operator |-> "in",
      value |-> PyS(<<"a", ",", " ", "b", ",", ",">>)],
     [column |-> [name |-> "id"], operator |-> "IN",
      value |-> PyL(<<PyN(1), PyN(2), PyN(3)>>)],
     [column |-> [name |-> "id"], operator |-> "not in",
      value |-> PyL(<<>>)],
     [column |-> [name |-> "status"], operator |-> "IN",
      value |-> PyS(<<" ", ",", " ">>)],
     [column |-> [name |-> "id"], operator |-> "IN", value |-> PyN(5)],
     [column |-> [name |-> "status"], operator |-> "contains",
      value |-> PyS(<<"x">>)],
     [column |-> [name |-> "status"], operator |-> "STARTS WITH",
      value |-> PyN(3)],
     [column |-> [name |-> "status"], operator |-> "matches",
      value |-> PyS(<<"^", "a">>)],
     [column |-> [name |-> "status"], operator |-> "ends with"],
     [column |-> [name |-> "status"], operator |-> "="],
     [column |-> [name |-> "status"], operator |-> "LIKE",
      value |-> PyS(<<"x">>)],
     [operator |-> "=", value |-> PyS(<<"x">>)],
     [column |-> [name |-> "status"], value |-> PyS(<<"x">>)],
     [column |-> [name |-> "_x1"], operator |-> ">=", value |-> PyN(0)]}

\* The payloads: lists of one or two filters as a list and as a JSON
\* string, and the payloads that are ignored.
FilterSamples ==
    {Payload(kind, <<>>) : kind \in PayloadKinds}
    \cup {Payload(kind, <<f>>) : kind \in {"list", "json_array"}, f \in Filters}
    \cup {Payload("list", <<f, g>>) : f \in Filters, g \in Filters}

BatchCalls ==
    {c \in [dialect : Dialects,
            method : {"extract_data_batch", "fetch_batch"},
            table_name : TableNames,
            offset : 0..MaxOffset,
            limit : 1..MaxLimit,
            filters : FilterSamples] :
        (c.filters.kind # "none")
        => (c.dialect = "postgres" /\ c.method = "extract_data_batch")}

BatchInit ==
    /\ bcall \in BatchCalls
    /\ bquery = <<>>
    /\ bparams = <<>>
    /\ NonBatchIdle

\* The batch read builds its query text (and hands it to execute).
BatchRead ==
    /\ bquery = <<>>
    /\ bquery' = BatchQuery(bcall)
    /\ bparams' = BatchParams(bcall)
    /\ UNCHANGED bcall
    /\ UNCHANGED NonBatch

SpecBatch == BatchInit /\ [][BatchRead]_vars

-----------------------------------------------------------------------------
(* build_query and the clause builders *)

\* value.replace("'", "''")
Escaped(chars) ==
    StrJoin([i \in DOMAIN chars |-> IF chars[i] = "'" THEN "''" ELSE chars[i]],
            "")

ListTypes == {"list", "set", "multiset"}

\* _format_value raises TypeError when it iterates a number.
FormatRaises(value, field_type) ==
    value.t = "num" /\ field_type \in ListTypes

_format_value(value, field_type) ==
    IF value.t = "none" THEN ""
    ELSE CASE field_type \in {"Date", "Datetime"} ->
                "'" \o PyStr(value) \o "'"
           [] field_type = "boolean" ->
                IF PyTruthy(value) THEN "TRUE" ELSE "FALSE"
           [] field_type = "number" -> PyStr(value)
           [] field_type \in ListTypes ->
                StrJoin([i \in DOMAIN PyIter(value) |->
                            "'" \o PyStr(PyIter(value)[i]) \o "'"], ", ")
           [] OTHER ->
                IF value.t = "str" THEN "'" \o Escaped(value.s) \o "'"
                ELSE "'" \o PyStr(value) \o "'"

\* str.upper() on the keywords used here.
UpperWord(x) ==
    CASE x = "and" -> "AND" [] x = "or" -> "OR" [] x = "inner" -> "INNER"
      [] x = "left" -> "LEFT" [] x = "right" -> "RIGHT" [] x = "full" -> "FULL"
      [] x = "outer" -> "OUTER"
      [] x = "sum" -> "SUM" [] x = "count" -> "COUNT" [] OTHER -> x

\* alias.strip().replace(' ', '_') on the aliases used here.
NormalAlias(a) ==
    CASE a = "order total" -> "order_total" [] a = " total " -> "total"
      [] a = " " -> "" [] OTHER -> a

\* table.field, or field alone
ColumnRef(tbl, fld) ==
    IF Truthy(tbl) THEN Fmt(tbl) \o "." \o Fmt(fld) ELSE Fmt(fld)

SelectPart(field) ==
    LET field_name == Get(field, "field", "")
        table_ == Get(field, "table", "")
        alias == NormalAlias(IF Truthy(Get(field, "alias", NoneStr))
                             THEN field.alias ELSE "")
        select_type == Get(field, "selectType", NoneStr)
        field_type == Get(field, "type", NoneStr)
        aggregate == UpperWord(IF Truthy(Get(field, "aggregate", NoneStr))
                               THEN field.aggregate ELSE "")
        is_count_all == Get(field, "isCountAll", FALSE)
        e0 == ColumnRef(table_, field_name)
        e1 == IF select_type = "AGGREGATE" /\ aggregate # ""
              THEN CASE aggregate = "COUNT(DISTINCT)" ->
                          "COUNT(DISTINCT " \o e0 \o ")"
                     [] aggregate = "DISTINCT" -> "DISTINCT " \o e0
                     [] OTHER -> IF is_count_all THEN "COUNT(*)"
                                 ELSE aggregate \o "(" \o e0 \o ")"
              ELSE e0
        e2 == IF field_type \in ListTypes /\ select_type = "NORMAL"
              THEN e1 \o "::TEXT" ELSE e1
    IN IF alias # "" THEN <<e2, "AS", alias>> ELSE <<e2>>

_build_select_clause(selected_fields) ==
    IF selected_fields = <<>> THEN <<"SELECT", "*">>
    ELSE <<"SELECT">>
         \o SqlJoin([i \in DOMAIN selected_fields |->
                        SelectPart(selected_fields[i])], <<",">>)

\* The join type copied into the keyword.
JoinKeywordCopied(jt) == <<jt, "JOIN">>

JoinKeyword(jt) ==
    CASE jt = "INNER" -> <<"INNER", "JOIN">>
      [] jt = "LEFT" -> <<"LEFT", "JOIN">>
      [] jt = "RIGHT" -> <<"RIGHT", "JOIN">>
      [] OTHER -> <<"INNER", "JOIN">>

JoinPart(base_table, join) ==
    LET jt == UpperWord(Get(join, "joinType", "INNER"))
        target == Get(join, "targetTable", NoneStr)
        conds == Get(join, "conditions", <<>>)
        clause(idx) ==
            LET c == conds[idx]
                connector == IF idx > 1
                             THEN <<UpperWord(Get(conds[idx - 1], "connector",
                                                  "AND"))>>
                             ELSE <<>>
                src == Get(c, "sourceField", NoneStr)
                tgt == Get(c, "targetField", NoneStr)
                op_ == Get(c, "operator", "=")
            IN IF Truthy(src) /\ Truthy(tgt)
               THEN connector \o <<Fmt(base_table) \o "." \o src, Fmt(op_),
                                   target \o "." \o tgt>>
               ELSE <<>>
    IN IF ~Truthy(target) \/ conds = <<>> THEN <<>>
       ELSE JoinKeyword(jt) \o <<target, "ON">>
            \o SqlJoin([idx \in DOMAIN conds |-> clause(idx)], <<>>)

\* .upper() on None raises AttributeError.
JoinRaises(join) ==
    \/ ~IsDict(join)
    \/ Get(join, "joinType", "INNER") = NoneStr
    \/ LET conds == Get(join, "conditions", <<>>)
       IN /\ Truthy(Get(join, "targetTable", NoneStr))
          /\ \E i \in DOMAIN conds :
                \/ ~IsDict(conds[i])
                \/ i < Len(conds) /\ Get(conds[i], "connector", "AND") = NoneStr

_build_joins_clause(base_table, joins) ==
    SqlJoin([i \in DOMAIN joins |-> JoinPart(base_table, joins[i])], <<>>)

BetweenOps == {"BETWEEN", "NOT BETWEEN"}

\* The values of the enum QueryOperator.
QueryOperator ==
    {"=", "!=", "IS NULL", "IS NOT NULL", "CONTAINS", "NOT CONTAIN",
     "STARTS WITH", "ENDS WITH", "MATCHES", "NOT MATCHES", ">", "<", ">=",
     "<=", "BETWEEN", "NOT BETWEEN", "IN", "NOT IN", "LIST CONTAINS",
     "LIST NOT CONTAINS"}

\* The bounds the other way round.
BetweenTextSwapped(field_expr, between_op, val, second_val) ==
    <<field_expr, between_op, second_val, "AND", val>>

\* f"{field_expr} {between_op} {val} AND {second_val}"
BetweenText(field_expr, between_op, val, second_val) ==
    <<field_expr, between_op, val, "AND", second_val>>

_build_value_condition(field_expr, operator, value, second_value, value_type) ==
    LET formatted == _format_value(value, value_type)
    IN CASE operator \in BetweenOps ->
              BetweenText(field_expr, operator, formatted,
                          _format_value(second_value, value_type))
         [] operator = "LIST CONTAINS" ->
              <<formatted, "=", "ANY(" \o field_expr \o ")">>
         [] operator = "LIST NOT CONTAINS" ->
              <<"NOT", "(" \o formatted, "=", "ANY(" \o field_expr \o "))">>
         [] operator = "CONTAINS" ->
              <<field_expr, "LIKE", "'%" \o PyStr(value) \o "%'">>
         [] operator = "NOT CONTAIN" ->
              <<field_expr, "NOT LIKE", "'%" \o PyStr(value) \o "%'">>
         [] operator = "STARTS WITH" ->
              <<field_expr, "LIKE", "'" \o PyStr(value) \o "%'">>
         [] operator = "ENDS WITH" ->
              <<field_expr, "LIKE", "'%" \o PyStr(value) \o "'">>
         [] operator = "MATCHES" ->
              <<field_expr, "~", "'" \o PyStr(value) \o "'">>
         [] operator = "NOT MATCHES" ->
              <<field_expr, "!~", "'" \o PyStr(value) \o "'">>
         [] operator \in {"IN", "NOT IN"} ->
              <<field_expr, operator, "(" \o formatted \o ")">>
         [] OTHER -> <<field_expr, Fmt(operator), formatted>>

ValueConditionRaises(operator, value, second_value, value_type) ==
    \/ FormatRaises(value, value_type)
    \/ operator \in BetweenOps /\ FormatRaises(second_value, value_type)

_build_column_condition(cond) ==
    LET left == ColumnRef(Get(cond, "table", NoneStr),
                          Get(cond, "field", NoneStr))
        right == ColumnRef(Get(cond, "targetTable", NoneStr),
                           Get(cond, "targetField", NoneStr))
        op_ == Get(cond, "operator", NoneStr)
        cmp_op == Get(cond, "compareOperator", "=")
        unit == Get(cond, "dateUnit", NoneStr)
        val == Get(cond, "value", PyNone)
        ftype == Get(cond, "valueType", "string")
        tail == IF Truthy(op_) THEN <<op_, PyStr(val)>> ELSE <<>>
        year == "EXTRACT(YEAR FROM " \o left \o ") - EXTRACT(YEAR FROM "
                \o right \o ")"
        month == "EXTRACT(MONTH FROM " \o left \o ") - EXTRACT(MONTH FROM "
                 \o right \o ")"
    IN IF ftype # "Date" THEN <<left, Fmt(cmp_op), right>> \o tail
       ELSE CASE unit = "YEAR" -> <<"(" \o year \o ")">> \o tail
              [] unit = "MONTH" ->
                   <<"((" \o year \o ") * 12 + (" \o month \o "))">> \o tail
              [] OTHER -> <<"(" \o left \o " - " \o right \o ")">> \o tail

\* The condition prefixed with the connector it stores itself.
WherePartOwnConnector(conditions, i) ==
    LET cond == conditions[i]
        connector == IF i > 1 THEN <<Fmt(Get(cond, "connector", "AND"))>>
                     ELSE <<>>
        clause == IF Get(cond, "comparisonType", "VALUE") = "COLUMN"
                  THEN _build_column_condition(cond)
                  ELSE _build_value_condition(
                           ColumnRef(Get(cond, "table", NoneStr),
                                     Get(cond, "field", NoneStr)),
                           Get(cond, "operator", "="),
                           Get(cond, "value", PyNone),
                           Get(cond, "secondValue", PyNone),
                           Get(cond, "valueType", "string"))
    IN IF clause = <<>> THEN <<>> ELSE connector \o clause

WherePart(conditions, i) ==
    LET cond == conditions[i]
        connector == IF i > 1
                     THEN <<Fmt(Get(conditions[i - 1], "connector", "AND"))>>
                     ELSE <<>>
        clause == IF Get(cond, "comparisonType", "VALUE") = "COLUMN"
                  THEN _build_column_condition(cond)
                  ELSE _build_value_condition(
                           ColumnRef(Get(cond, "table", NoneStr),
                                     Get(cond, "field", NoneStr)),
                           Get(cond, "operator", "="),
                           Get(cond, "value", PyNone),
                           Get(cond, "secondValue", PyNone),
                           Get(cond, "valueType", "string"))
    IN IF clause = <<>> THEN <<>> ELSE connector \o clause

WhereRaises(conditions) ==
    \E i \in DOMAIN conditions :
       \/ ~IsDict(conditions[i])
       \/ /\ Get(conditions[i], "comparisonType", "VALUE") # "COLUMN"
          /\ ValueConditionRaises(Get(conditions[i], "operator", "="),
                                  Get(conditions[i], "value", PyNone),
                                  Get(conditions[i], "secondValue", PyNone),
                                  Get(conditions[i], "valueType", "string"))

_build_where_clause_unguarded(conditions, invert) ==
    LET where == SqlJoin([i \in DOMAIN conditions |->
                             WherePart(conditions, i)], <<>>)
    IN IF invert THEN <<"WHERE", "NOT", "(">> \o where \o <<")">>
       ELSE IF where # <<>> THEN <<"WHERE">> \o where ELSE <<>>

_build_where_clause(conditions, invert) ==
    IF conditions = <<>> THEN <<>>
    ELSE LET where == SqlJoin([i \in DOMAIN conditions |->
                                  WherePart(conditions, i)], <<>>)
         IN IF invert THEN <<"WHERE", "NOT", "(">> \o where \o <<")">>
            ELSE IF where # <<>> THEN <<"WHERE">> \o where ELSE <<>>

_build_group_by(group_by_fields) ==
    IF group_by_fields = <<>> THEN <<>>
    ELSE LET named == SelectSeq(group_by_fields,
                                LAMBDA f : Truthy(Get(f, "field", NoneStr)))
         IN <<"GROUP", "BY">>
            \o SqlJoin([i \in DOMAIN named |->
                           <<ColumnRef(Get(named[i], "table", NoneStr),
                                       named[i].field)>>], <<",">>)

\* The text of one having condition after its connector (<<>> for None).
format_having_condition(having, connector) ==
    LET op_ == Get(having, "operator", NoneStr)
        expr == ColumnRef(Get(having, "table", NoneStr),
                          Get(having, "field", NoneStr))
        agg == Get(having, "aggregate", NoneStr)
        aggregated ==
            IF Get(having, "isAggregation", FALSE) /\ Truthy(agg)
            THEN CASE agg = "COUNT(DISTINCT)" ->
                        "COUNT(DISTINCT " \o expr \o ")"
                   [] OTHER -> IF Get(having, "isCountAll", FALSE)
                               THEN "COUNT(*)"
                               ELSE agg \o "(" \o expr \o ")"
            ELSE expr
    IN IF ~Truthy(op_) THEN <<>>
       ELSE connector
            \o _build_value_condition(aggregated, op_,
                                      Get(having, "value", PyNone),
                                      Get(having, "secondValue", PyNone),
                                      Get(having, "valueType", NoneStr))

HavingRaises(having_fields) ==
    \E i \in DOMAIN having_fields :
       \/ ~IsDict(having_fields[i])
       \/ /\ Truthy(Get(having_fields[i], "operator", NoneStr))
          /\ ValueConditionRaises(having_fields[i].operator,
                                  Get(having_fields[i], "value", PyNone),
                                  Get(having_fields[i], "secondValue", PyNone),
                                  Get(having_fields[i], "valueType", NoneStr))

_build_having_clause(having_fields) ==
    LET conds == SqlJoin(
                   [i \in DOMAIN having_fields |->
                       format_having_condition(
                           having_fields[i],
                           IF i > 1
                           THEN <<Fmt(Get(having_fields[i - 1], "connector",
                                          "AND"))>>
                           ELSE <<>>)], <<>>)
    IN IF conds # <<>> THEN <<"HAVING">> \o conds ELSE <<>>

\* What build_query returns: None, or the SQL as its lines (the clauses
\* joined by "\n").
NoSql == [ret |-> "None", lines |-> <<>>]

\* Some clause builder raises: the except clause of build_query returns
\* None.
CompileRaises(data) ==
    \/ \E i \in DOMAIN Get(data, "selectedFields", <<>>) :
          ~IsDict(data.selectedFields[i])
    \/ \E i \in DOMAIN Get(data, "joins", <<>>) : JoinRaises(data.joins[i])
    \/ WhereRaises(Get(data, "whereConditions", <<>>))
    \/ \E i \in DOMAIN Get(data, "groupByFields", <<>>) :
          ~IsDict(data.groupByFields[i])
    \/ HavingRaises(Get(data, "having", <<>>))

KeepAll(clauses) == clauses

\* "\n".join(clause for clause in clauses if clause.strip())
KeepNonEmpty(clauses) == SelectSeq(clauses, LAMBDA clause : clause # <<>>)

\* Steps 4 to 7 of build_query and the join of the non-empty clauses.
Compile(data, invert_where) ==
    LET base_table == Get(data, "baseTable", NoneStr)
        clauses ==
            <<_build_select_clause(Get(data, "selectedFields", <<>>)),
              <<"FROM", Fmt(base_table)>>,
              _build_joins_clause(base_table, Get(data, "joins", <<>>)),
              _build_where_clause(Get(data, "whereConditions", <<>>),
                                  invert_where),
              _build_group_by(Get(data, "groupByFields", <<>>)),
              _build_having_clause(Get(data, "having", <<>>))>>
    IN IF CompileRaises(data) THEN NoSql
       ELSE [ret |-> "sql", lines |-> KeepNonEmpty(clauses)]

build_query_unchecked(data, invert_where) == Compile(data, invert_where)

build_query(data, invert_where) ==
    IF ~Truthy(Get(data, "baseTable", NoneStr)) THEN NoSql
    ELSE Compile(data, invert_where)

\* Query descriptions: a base table (missing, None, empty or named) and a
\* choice of each of the other fields.
BaseTables == {"<missing>", NoneStr, "", "orders"}

SelectedFieldsSamples ==
    {<<>>,
     <<[field |-> "id"],
       [field |-> "amt", aggregate |-> "sum", selectType |-> "AGGREGATE",
        alias |-> "order total"]>>,
     <<[field |-> "tags", table |-> "orders", type |-> "list",
        selectType |-> "NORMAL"]>>,
     <<[field |-> "id"],
       [field |-> "amt", aggregate |-> "SUM", selectType |-> "Aggregate"]>>,
     <<NonDict>>}

JoinsSamples ==
    {<<>>,
     <<[joinType |-> "left", targetTable |-> "customers",
        conditions |-> <<[sourceField |-> "cust", targetField |-> "id",
                          connector |-> "or"],
                         [sourceField |-> "region", targetField |-> "region"]>>]>>,
     <<[joinType |-> NoneStr, targetTable |-> "customers",
        conditions |-> <<[sourceField |-> "cust", targetField |-> "id"]>>]>>,
     <<[targetTable |-> "customers",
        conditions |-> <<[targetField |-> "id", connector |-> "and"],
                         [sourceField |-> "region", targetField |-> "region"]>>]>>,
     <<[joinType |-> "FULL", targetTable |-> "customers",
        conditions |-> <<[targetField |-> "id"]>>]>>}

WhereSamples ==
    {<<>>,
     <<[field |-> "age", operator |-> "BETWEEN", value |-> PyN(18),
        secondValue |-> PyN(65), valueType |-> "number", connector |-> "OR"],
       [field |-> "name", table |-> "orders", operator |-> "=",
        value |-> PyS(<<"O", "'", "B">>)]>>,
     <<[field |-> "tags", operator |-> "IN", value |-> PyN(3),
        valueType |-> "list"]>>,
     <<[field |-> "age", operator |-> "BETWEEN", value |-> PyN(18),
        valueType |-> "number"]>>,
     <<[field |-> "name", operator |-> "SOUNDS LIKE",
        value |-> PyS(<<"x">>)]>>}

GroupBySamples ==
    {<<>>, <<[field |-> "region", table |-> "orders"], [table |-> "orders"]>>,
     <<[table |-> "orders"]>>}

HavingSamples ==
    {<<>>,
     <<[field |-> "amt", aggregate |-> "SUM", isAggregation |-> TRUE,
        operator |-> ">", value |-> PyN(10), valueType |-> "number"]>>,
     <<[field |-> "n", connector |-> "OR"],
       [field |-> "amt", aggregate |-> "SUM", isAggregation |-> TRUE,
        operator |-> ">", value |-> PyN(10), valueType |-> "number"]>>,
     <<[field |-> "amt", operator |-> "NOT BETWEEN", secondValue |-> PyN(5),
        valueType |-> "number"]>>,
     <<[field |-> "region", operator |-> "~~", value |-> PyS(<<"x">>)]>>}

QueryDescriptions ==
    {(IF b = "<missing>" THEN <<>> ELSE [baseTable |-> b])
     @@ (IF sf = <<>> THEN <<>> ELSE [selectedFields |-> sf])
     @@ [joins |-> j, whereConditions |-> w, groupByFields |-> g,
         having |-> h] :
        b \in BaseTables, sf \in SelectedFieldsSamples, j \in JoinsSamples,
        w \in WhereSamples, g \in GroupBySamples, h \in HavingSamples}
    \cup {[baseTable |-> b] : b \in {"orders", "t"}}

QueryInit ==
    /\ qdata \in QueryDescriptions
    /\ qinvert \in BOOLEAN
    /\ qsql = [ret |-> "pending", lines |-> <<>>]
    /\ NonQueryIdle

\* build_query(data, invert_where) is called and returns.
BuildQuery ==
    /\ qsql.ret = "pending"
    /\ qsql' = build_query(qdata, qinvert)
    /\ UNCHANGED <<qdata, qinvert>>
    /\ UNCHANGED NonQuery

SpecQuery == QueryInit /\ [][BuildQuery]_vars

-----------------------------------------------------------------------------
(* The Informix clause builders (utils/informix_connector_utils.py) *)

\* _format_value of the Informix module; a number is returned as it is and
\* formatted by the f-string it is put into.
informix_format_value(value, field_type) ==
    IF value.t = "none" THEN ""
    ELSE CASE field_type = "Date" ->
                "TO_DATE('" \o PyStr(value) \o "', '%Y-%m-%d')"
           [] field_type = "Datetime" -> "'" \o PyStr(value) \o "'"
           [] field_type = "boolean" ->
                IF PyTruthy(value) THEN "'t'" ELSE "'f'"
           [] field_type = "number" -> PyStr(value)
           [] field_type \in ListTypes ->
                StrJoin([i \in DOMAIN PyIter(value) |->
                            "'" \o PyStr(PyIter(value)[i]) \o "'"], ", ")
           [] OTHER ->
                IF value.t = "str" THEN "'" \o Escaped(value.s) \o "'"
                ELSE "'" \o PyStr(value) \o "'"

\* value_type.upper() of a list type
UpperListType(t) ==
    CASE t = "list" -> "LIST" [] t = "set" -> "SET"
      [] t = "multiset" -> "MULTISET"

informix_build_value_condition(field_expr, operator, value, second_value, value_type) ==
    LET formatted_val == informix_format_value(value, value_type)
    IN CASE operator \in BetweenOps ->
              <<field_expr, operator, formatted_val, "AND",
                informix_format_value(second_value, value_type)>>
         [] operator = "LIST CONTAINS" ->
              <<"'" \o PyStr(value) \o "'", "IN", field_expr>>
         [] operator = "LIST NOT CONTAINS" ->
              <<"'" \o PyStr(value) \o "'", "NOT IN", field_expr>>
         [] operator = "CONTAINS" ->
              <<field_expr, "LIKE", "'%" \o PyStr(value) \o "%'">>
         [] operator = "NOT CONTAIN" ->
              <<field_expr, "NOT LIKE", "'%" \o PyStr(value) \o "%'">>
         [] operator = "STARTS WITH" ->
              <<field_expr, "LIKE", "'" \o PyStr(value) \o "%'">>
         [] operator = "ENDS WITH" ->
              <<field_expr, "LIKE", "'%" \o PyStr(value) \o "'">>
         [] operator \in {"MATCHES", "NOT MATCHES"} ->
              <<field_expr, operator, "'" \o PyStr(value) \o "'">>
         [] operator \in {"IN", "NOT IN"} ->
              <<field_expr, operator, "(" \o formatted_val \o ")">>
         [] OTHER ->
              IF value_type \in ListTypes /\ operator \in {"=", "!="}
              THEN <<field_expr, operator,
                     UpperListType(value_type) \o "{" \o formatted_val \o "}">>
              ELSE <<field_expr, Fmt(operator), formatted_val>>

informix_build_column_condition(condition) ==
    LET left_expr == ColumnRef(Get(condition, "table", NoneStr),
                               Get(condition, "field", NoneStr))
        right_expr == ColumnRef(Get(condition, "targetTable", NoneStr),
                                Get(condition, "targetField", NoneStr))
        operator == Get(condition, "operator", NoneStr)
        compare_op == Get(condition, "compareOperator", "=")
        date_unit == Get(condition, "dateUnit", NoneStr)
        value == Get(condition, "value", PyNone)
        field_type == Get(condition, "valueType", "string")
        year == "YEAR(" \o left_expr \o ") - YEAR(" \o right_expr \o ")"
        month == "MONTH(" \o left_expr \o ") - MONTH(" \o right_expr \o ")"
        tail == IF operator # NoneStr THEN <<operator, PyStr(value)>>
                ELSE <<>>
    IN IF field_type # "Date"
       THEN <<left_expr, Fmt(compare_op), right_expr>>
            \o (IF Truthy(operator) THEN <<operator, PyStr(value)>> ELSE <<>>)
       ELSE CASE date_unit = "YEAR" -> <<"(" \o year \o ")">> \o tail
              [] date_unit = "MONTH" ->
                   <<"((" \o year \o ") * 12 + (" \o month \o "))">> \o tail
              [] OTHER ->
                   <<"(" \o left_expr \o " " \o Fmt(compare_op) \o " "
                     \o right_expr \o ")">> \o tail

informix_WherePart(conditions, i) ==
    LET condition == conditions[i]
        connector == IF i > 1
                     THEN Get(conditions[i - 1], "connector", "AND")
                     ELSE "AND"
        condition_part ==
            IF Get(condition, "comparisonType", "VALUE") = "COLUMN"
            THEN informix_build_column_condition(condition)
            ELSE informix_build_value_condition(
                     ColumnRef(Get(condition, "table", NoneStr),
                               Get(condition, "field", NoneStr)),
                     Get(condition, "operator", "="),
                     Get(condition, "value", PyNone),
                     Get(condition, "secondValue", PyNone),
                     Get(condition, "valueType", "string"))
    IN IF condition_part = <<>> THEN <<>>
       ELSE IF i = 1 THEN condition_part
       ELSE <<Fmt(connector)>> \o condition_part

informix_build_where_clause_bare_not(conditions, invert) ==
    LET where_clause == SqlJoin([i \in DOMAIN conditions |->
                                    informix_WherePart(conditions, i)], <<>>)
    IN IF where_clause = <<>> THEN <<>>
       ELSE IF invert THEN <<"WHERE", "NOT">> \o where_clause
       ELSE <<"WHERE">> \o where_clause

informix_build_where_clause(conditions, invert) ==
    IF conditions = <<>> THEN <<>>
    ELSE LET where_clause == SqlJoin([i \in DOMAIN conditions |->
                                         informix_WherePart(conditions, i)],
                                     <<>>)
         IN IF invert /\ where_clause # <<>>
            THEN <<"WHERE", "NOT", "(">> \o where_clause \o <<")">>
            ELSE IF where_clause # <<>> THEN <<"WHERE">> \o where_clause
            ELSE <<>>

\* The loop over the joins and their conditions is the one of the Postgres
\* module, statement for statement.
informix_build_joins_clause(base_table, joins) ==
    SqlJoin([i \in DOMAIN joins |-> JoinPart(base_table, joins[i])], <<>>)

informix_format_having_condition(having, connector) ==
    LET operator == Get(having, "operator", NoneStr)
        field_expr == ColumnRef(Get(having, "table", NoneStr),
                                Get(having, "field", NoneStr))
        aggregate == Get(having, "aggregate", NoneStr)
        aggregated ==
            IF Get(having, "isAggregation", FALSE) /\ Truthy(aggregate)
            THEN CASE aggregate = "COUNT(DISTINCT)" ->
                        "COUNT(DISTINCT " \o field_expr \o ")"
                   [] OTHER -> IF Get(having, "isCountAll", FALSE)
                               THEN "COUNT(*)"
                               ELSE aggregate \o "(" \o field_expr \o ")"
            ELSE field_expr
    IN IF ~Truthy(operator) THEN <<>>
       ELSE connector
            \o informix_build_value_condition(
                   aggregated, operator, Get(having, "value", PyNone),
                   Get(having, "secondValue", PyNone),
                   Get(having, "valueType", NoneStr))

informix_build_having_clause(having_fields) ==
    LET conditions == SqlJoin(
                   [i \in DOMAIN having_fields |->
                       informix_format_having_condition(
                           having_fields[i],
                           IF i > 1
                           THEN <<Fmt(Get(having_fields[i - 1], "connector",
                                          "AND"))>>
                           ELSE <<>>)], <<>>)
    IN IF conditions # <<>> THEN <<"HAVING">> \o conditions ELSE <<>>

informix_build_group_by(group_by_fields) ==
    IF group_by_fields = <<>> THEN <<>>
    ELSE LET named == SelectSeq(group_by_fields,
                                LAMBDA f : Truthy(Get(f, "field", NoneStr)))
         IN <<"GROUP", "BY">>
            \o SqlJoin([i \in DOMAIN named |->
                           <<ColumnRef(Get(named[i], "table", NoneStr),
                                       named[i].field)>>], <<",">>)

\* One selected field of the Informix module; the alias is stripped and its
\* blanks replaced only when the stripped alias is not empty.
informix_SelectPart(field) ==
    LET field_expr == Get(field, "field", "")
        table_ == Get(field, "table", "")
        alias == NormalAlias(Get(field, "alias", ""))
        select_type == Get(field, "selectType", NoneStr)
        field_type == Get(field, "type", NoneStr)
        aggregate == UpperWord(Get(field, "aggregate", ""))
        is_count_all == Get(field, "isCountAll", FALSE)
        column_expr == ColumnRef(table_, field_expr)
        aggregated ==
            IF select_type = "AGGREGATE" /\ aggregate # ""
            THEN CASE aggregate = "COUNT(DISTINCT)" ->
                        "COUNT(DISTINCT " \o column_expr \o ")"
                   [] aggregate = "DISTINCT" -> "DISTINCT " \o column_expr
                   [] OTHER -> IF is_count_all THEN "COUNT(*)"
                               ELSE aggregate \o "(" \o column_expr \o ")"
            ELSE column_expr
        cast == IF field_type \in ListTypes /\ select_type = "NORMAL"
                THEN aggregated \o "::LVARCHAR" ELSE aggregated
    IN IF alias # "" THEN <<cast, "AS", alias>> ELSE <<cast>>

\* None.upper() and None.strip() raise AttributeError.
informix_SelectRaises(selected_fields) ==
    \E i \in DOMAIN selected_fields :
       \/ ~IsDict(selected_fields[i])
       \/ Get(selected_fields[i], "aggregate", "") = NoneStr
       \/ Get(selected_fields[i], "alias", "") = NoneStr

informix_build_select_clause(selected_fields) ==
    IF selected_fields = <<>> THEN <<"SELECT", "*">>
    ELSE <<"SELECT">>
         \o SqlJoin([i \in DOMAIN selected_fields |->
                        informix_SelectPart(selected_fields[i])], <<",">>)

-----------------------------------------------------------------------------
(* The clause builders called on their own *)

Modules == {"postgres", "informix"}

Builders ==
    {"_build_where_clause", "_build_joins_clause", "_build_having_clause",
     "_build_group_by", "_build_select_clause"}

\* The lists of at most MaxConds elements of S.
ListsOf(S) == UNION {[1..n -> S] : n \in 0..MaxConds}

WhereConditions ==
    {[field |-> "age", operator |-> "BETWEEN", value |-> PyN(18),
      secondValue |-> PyN(65), valueType |-> "number", connector |-> "OR"],
     [field |-> "name", table |-> "orders", operator |-> "=",
      value |-> PyS(<<"O", "'", "B">>)],
     [field |-> "ref", operator |-> "IS NULL", connector |-> "and"],
     [comparisonType |-> "COLUMN", field |-> "a", targetField |-> "b",
      connector |-> "OR"],
     [field |-> "age", operator |-> "BETWEEN", value |-> PyN(18),
      valueType |-> "number"],
     [field |-> "name", operator |-> "SOUNDS LIKE",
      value |-> PyS(<<"x">>), connector |-> "AND"],
     [field |-> "tags", operator |-> "IN", value |-> PyN(3),
      valueType |-> "list"]}

\* The values and value types of the conditions built one by one.
OperandValues ==
    {PyNone, PyS(<<"O", "'", "B">>), PyN(3),
     PyL(<<PyS(<<"a", "'", "b">>), PyN(2)>>), PyL(<<PyN(1), PyN(2)>>),
     PyL(<<>>)}

OperandTypes == {"<missing>", "number", "list", "Date", "boolean"}

\* One condition for every operator, value, value type and second value.
OperatorConditions ==
    {[field |-> "name", operator |-> o, value |-> v]
     @@ (IF t = "<missing>" THEN <<>> ELSE [valueType |-> t])
     @@ (IF sv.t = "none" THEN <<>> ELSE [secondValue |-> sv]) :
        o \in QueryOperator, v \in OperandValues, t \in OperandTypes,
        sv \in {PyNone, PyN(65)}}

JoinConditions ==
    {[sourceField |-> "cust", targetField |-> "id", connector |-> "or"],
     [sourceField |-> "region", targetField |-> "region"],
     [targetField |-> "id", connector |-> "and"]}

Joins ==
    {j \in [joinType : {"<missing>", "left", "RIGHT", "FULL", "outer"},
            targetTable : {"customers"},
            conditions : ListsOf(JoinConditions)] :
        j.joinType # "left" => Len(j.conditions) <= 2}

\* The dict of a join: the joinType key is absent when it is missing.
JoinDict(j) ==
    IF j.joinType = "<missing>"
    THEN [targetTable |-> j.targetTable, conditions |-> j.conditions]
    ELSE j

JoinLists ==
    {<<JoinDict(j)>> : j \in Joins}
    \cup {<<>>,
          <<[joinType |-> "inner", targetTable |-> "customers",
             conditions |-> <<[sourceField |-> "cust", targetField |-> "id"]>>],
            [joinType |-> "left", targetTable |-> "items",
             conditions |-> <<[sourceField |-> "id",
                               targetField |-> "order_id"]>>]>>,
          <<[joinType |-> NoneStr, targetTable |-> "customers",
             conditions |-> <<[sourceField |-> "cust",
                               targetField |-> "id"]>>]>>,
          <<[joinType |-> "left", targetTable |-> "",
             conditions |-> <<[sourceField |-> "cust",
                               targetField |-> "id"]>>]>>}

HavingConditions ==
    {[field |-> "amt", aggregate |-> "SUM", isAggregation |-> TRUE,
      operator |-> ">", value |-> PyN(10), valueType |-> "number",
      connector |-> "OR"],
     [field |-> "n", connector |-> "and"],
     [field |-> "region", operator |-> "=", value |-> PyS(<<"x">>)],
     [field |-> "amt", operator |-> "NOT BETWEEN", value |-> PyN(1)],
     [field |-> "id", aggregate |-> "COUNT(DISTINCT)", isAggregation |-> TRUE,
      isCountAll |-> TRUE, operator |-> ">", value |-> PyN(1),
      valueType |-> "number"],
     [field |-> "id", aggregate |-> "COUNT", isAggregation |-> TRUE,
      isCountAll |-> TRUE, operator |-> ">", value |-> PyN(1),
      valueType |-> "number"],
     [field |-> "id", isAggregation |-> TRUE, isCountAll |-> TRUE,
      operator |-> ">", value |-> PyN(1), valueType |-> "number"]}

SelectFields ==
    {[field |-> "id"],
     [field |-> "amt", aggregate |-> "sum", selectType |-> "AGGREGATE"],
     [field |-> "id", aggregate |-> "COUNT(DISTINCT)",
      selectType |-> "AGGREGATE", isCountAll |-> TRUE],
     [field |-> "id", aggregate |-> "DISTINCT", selectType |-> "AGGREGATE",
      isCountAll |-> TRUE],
     [field |-> "id", aggregate |-> "COUNT", selectType |-> "AGGREGATE",
      isCountAll |-> TRUE],
     [field |-> "id", selectType |-> "AGGREGATE", isCountAll |-> TRUE],
     [field |-> "tags", table |-> "orders", type |-> "list",
      selectType |-> "NORMAL", alias |-> "order total"]}

GroupByFields ==
    {[field |-> "region", table |-> "orders"], [table |-> "orders"],
     [field |-> "year"]}

BuilderArgs(b) ==
    CASE b = "_build_where_clause" ->
           ListsOf(WhereConditions) \cup {<<c>> : c \in OperatorConditions}
      [] b = "_build_joins_clause" -> JoinLists
      [] b = "_build_having_clause" -> ListsOf(HavingConditions)
      [] b = "_build_group_by" -> ListsOf(GroupByFields)
      [] b = "_build_select_clause" -> ListsOf(SelectFields)

\* The builder raises on this argument.
ClauseRaises(m, b, items) ==
    CASE b = "_build_where_clause" -> WhereRaises(items)
      [] b = "_build_joins_clause" -> \E i \in DOMAIN items :
                                         JoinRaises(items[i])
      [] b = "_build_having_clause" -> HavingRaises(items)
      [] b = "_build_group_by" -> \E i \in DOMAIN items : ~IsDict(items[i])
      [] b = "_build_select_clause" ->
           IF m = "informix" THEN informix_SelectRaises(items)
           ELSE \E i \in DOMAIN items : ~IsDict(items[i])

\* The text the builder of module m returns.
ClauseText(m, b, items, invert) ==
    CASE m = "postgres" /\ b = "_build_where_clause" ->
           _build_where_clause(items, invert)
      [] m = "postgres" /\ b = "_build_joins_clause" ->
           _build_joins_clause("orders", items)
      [] m = "postgres" /\ b = "_build_having_clause" ->
           _build_having_clause(items)
      [] m = "postgres" /\ b = "_build_group_by" -> _build_group_by(items)
      [] m = "informix" /\ b = "_build_where_clause" ->
           informix_build_where_clause(items, invert)
      [] m = "informix" /\ b = "_build_joins_clause" ->
           informix_build_joins_clause("orders", items)
      [] m = "informix" /\ b = "_build_having_clause" ->
           informix_build_having_clause(items)
      [] m = "informix" /\ b = "_build_group_by" ->
           informix_build_group_by(items)
      [] m = "postgres" /\ b = "_build_select_clause" ->
           _build_select_clause(items)
      [] m = "informix" /\ b = "_build_select_clause" ->
           informix_build_select_clause(items)

CallBuilder(m, b, items, invert) ==
    IF ClauseRaises(m, b, items) THEN [raised |-> TRUE, text |-> <<>>]
    ELSE [raised |-> FALSE, text |-> ClauseText(m, b, items, invert)]

ClauseInit ==
    /\ kcall \in {c \in [module : Modules, builder : Builders,
                         items : UNION {BuilderArgs(b) : b \in Builders}] :
                     c.items \in BuilderArgs(c.builder)}
    /\ kres = <<>>
    /\ NonClauseIdle

\* The builder is called on its argument (invert=False for the where
\* clause).
CallClause ==
    /\ kres = <<>>
    /\ kres' = <<CallBuilder(kcall.module, kcall.builder, kcall.items, FALSE)>>
    /\ UNCHANGED kcall
    /\ UNCHANGED NonClause

\* _build_where_clause is called again on the same conditions with
\* invert=True.
CallInverted ==
    /\ kcall.builder = "_build_where_clause"
    /\ Len(kres) = 1
    /\ kres' = Append(kres, CallBuilder(kcall.module, kcall.builder,
                                        kcall.items, TRUE))
    /\ UNCHANGED kcall
    /\ UNCHANGED NonClause

ClauseNext == CallClause \/ CallInverted

SpecClause == ClauseInit /\ [][ClauseNext]_vars

-----------------------------------------------------------------------------
(* build_query called again and again, by two threads *)

Threads == {1, 2}

\* The descriptions the callers hold: "a" and "b" are equal, "d" makes the
\* where builder raise, "e" has no base table.
Described ==
    [a |-> [baseTable |-> "orders",
            selectedFields |-> <<[field |-> "id"]>>,
            whereConditions |->
                <<[field |-> "age", operator |-> "BETWEEN",
                   value |-> PyN(18), secondValue |-> PyN(65),
                   valueType |-> "number"]>>],
     b |-> [baseTable |-> "orders",
            selectedFields |-> <<[field |-> "id"]>>,
            whereConditions |->
                <<[field |-> "age", operator |-> "BETWEEN",
                   value |-> PyN(18), secondValue |-> PyN(65),
                   valueType |-> "number"]>>],
     c |-> [baseTable |-> "t",
            groupByFields |-> <<[field |-> "region"]>>],
     d |-> [baseTable |-> "orders",
            whereConditions |->
                <<[field |-> "tags", operator |-> "IN", value |-> PyN(3),
                   valueType |-> "list"]>>],
     e |-> [selectedFields |-> <<[field |-> "id"]>>]]

\* A thread that is not in build_query.
Outside(n) ==
    [pc |-> 0, desc |-> "none", invert |-> FALSE, data |-> <<>>,
     clauses |-> <<>>, calls |-> n]

\* The builder call of step k (2: select, 3: from and joins, 4: where,
\* 5: group by, 6: having) raises.
StepRaises(data, k) ==
    CASE k = 2 -> \E i \in DOMAIN Get(data, "selectedFields", <<>>) :
                     ~IsDict(data.selectedFields[i])
      [] k = 3 -> \E i \in DOMAIN Get(data, "joins", <<>>) :
                     JoinRaises(data.joins[i])
      [] k = 4 -> WhereRaises(Get(data, "whereConditions", <<>>))
      [] k = 5 -> \E i \in DOMAIN Get(data, "groupByFields", <<>>) :
                     ~IsDict(data.groupByFields[i])
      [] k = 6 -> HavingRaises(Get(data, "having", <<>>))

\* The clauses step k assigns to the locals of the call.
StepClauses(data, invert_where, k) ==
    CASE k = 2 -> <<_build_select_clause(Get(data, "selectedFields", <<>>))>>
      [] k = 3 -> <<<<"FROM", Fmt(Get(data, "baseTable", NoneStr))>>,
                    _build_joins_clause(Get(data, "baseTable", NoneStr),
                                        Get(data, "joins", <<>>))>>
      [] k = 4 -> <<_build_where_clause(Get(data, "whereConditions", <<>>),
                                        invert_where)>>
      [] k = 5 -> <<_build_group_by(Get(data, "groupByFields", <<>>))>>
      [] k = 6 -> <<_build_having_clause(Get(data, "having", <<>>))>>

\* The clauses of the first thread, whichever thread asks.
ClausesOfFirst(threads, t) == threads[1].clauses

\* select_clause ... having_clause and clauses are locals of the call.
ClausesOf(threads, t) == threads[t].clauses

RepeatInit ==
    /\ rdescs = Described
    /\ rthreads = [t \in Threads |-> Outside(0)]
    /\ rdone = {}
    /\ NonRepeatIdle

\* A thread calls build_query(data, invert_where) on a description.
Begin(t) ==
    /\ rthreads[t].pc = 0
    /\ rthreads[1].calls + rthreads[2].calls < MaxBuilds
    /\ \E name \in DOMAIN rdescs, inv \in BOOLEAN :
          rthreads' = [rthreads EXCEPT
                         ![t] = [pc |-> 1, desc |-> name, invert |-> inv,
                                 data |-> rdescs[name], clauses |-> <<>>,
                                 calls |-> @.calls + 1]]
    /\ UNCHANGED <<rdescs, rdone>>
    /\ UNCHANGED NonRepeat

\* The call returns res.
Return_(t, res) ==
    /\ rdone' = rdone \cup {[data |-> rthreads[t].data,
                             invert |-> rthreads[t].invert, sql |-> res]}
    /\ rthreads' = [rthreads EXCEPT ![t] = Outside(@.calls)]

\* Step 1: the base table is required.
Validate(t) ==
    /\ rthreads[t].pc = 1
    /\ IF Truthy(Get(rdescs[rthreads[t].desc], "baseTable", NoneStr))
       THEN /\ rthreads' = [rthreads EXCEPT ![t].pc = 2]
            /\ UNCHANGED rdone
       ELSE Return_(t, NoSql)
    /\ UNCHANGED rdescs
    /\ UNCHANGED NonRepeat

\* Steps 4 to 7: one clause builder is called on the description; what it
\* raises is caught and None is returned.
BuildClause(t) ==
    /\ rthreads[t].pc \in 2..6
    /\ LET th == rthreads[t]
           data == rdescs[th.desc]
       IN IF StepRaises(data, th.pc) THEN Return_(t, NoSql)
          ELSE /\ rthreads' =
                    [rthreads EXCEPT
                       ![t].pc = @ + 1,
                       ![t].clauses = @ \o StepClauses(data, th.invert, th.pc)]
               /\ UNCHANGED rdone
    /\ UNCHANGED rdescs
    /\ UNCHANGED NonRepeat

\* The non-empty clauses are joined and returned.
JoinClauses(t) ==
    /\ rthreads[t].pc = 7
    /\ Return_(t, [ret |-> "sql",
                   lines |-> KeepNonEmpty(ClausesOf(rthreads, t))])
    /\ UNCHANGED rdescs
    /\ UNCHANGED NonRepeat

RepeatNext ==
    \E t \in Threads :
       Begin(t) \/ Validate(t) \/ BuildClause(t) \/ JoinClauses(t)

SpecRepeat == RepeatInit /\ [][RepeatNext]_vars

-----------------------------------------------------------------------------
(* PostgresConnector.manage_table_primary_keys *)

\* The column lists a caller passes.
KeyColumns == {<<>>, <<"id">>, <<"id", "code">>}

KeyCalls == [columns : KeyColumns, create : BOOLEAN]

\* constraint_name = f"pk_{use_schema}_{table_name}"
\* (schema "public", table "orders")
constraint_name == "pk_public_orders"

Constraint(name, cols) == [name |-> name, cols |-> cols]

\* The primary-key constraints a table can have when the call is made: none,
\* or one (PostgreSQL allows one primary key per table), named by PostgreSQL
\* or by an earlier call.
ExistingKeys ==
    {{}} \cup {{Constraint(n, c)} : n \in {"orders_pkey", constraint_name},
                                    c \in {<<"id">>, <<"code">>}}

\* The primary-key constraints of the table: before the call, as committed
\* (what every other session sees), as the transaction of conn sees them, and
\* the state of that transaction
\* ("none" | "open" | "aborted" | "committed" | "rolledback").
Database(had) ==
    [before |-> had, committed |-> had, working |-> had, txn |-> "none"]

\* All the orders in which the rows of a SELECT without ORDER BY may come.
Orders(S) ==
    {s \in [1..Cardinality(S) -> S] :
        \A i, j \in 1..Cardinality(S) : i # j => s[i] # s[j]}

\* A connection in autocommit mode: the statement is committed at once.
DropConstraintAutocommit(db, name) ==
    [db EXCEPT !.working = {c \in @ : c.name # name},
               !.committed = {c \in @ : c.name # name}]

\* cursor.execute('ALTER TABLE ... DROP CONSTRAINT IF EXISTS "<name>";')
\* psycopg2.connect leaves autocommit off: the statement runs in the
\* transaction the first execute opened.
DropConstraint(db, name) ==
    [db EXCEPT !.working = {c \in @ : c.name # name}]

\* cursor.execute('ALTER TABLE ... ADD CONSTRAINT "<name>" PRIMARY KEY (...);')
AddConstraint(db, name, cols) ==
    [db EXCEPT !.working = @ \cup {Constraint(name, cols)}]

\* conn.commit()
Commit(db) == [db EXCEPT !.committed = db.working, !.txn = "committed"]

\* conn.rollback()
Rollback(db) ==
    [db EXCEPT !.working = db.committed,
               !.txn = IF @ \in {"open", "aborted"} THEN "rolledback" ELSE @]

\* conn.close(): a transaction that is still open is discarded.
CloseConnection(db) ==
    IF db.txn \in {"open", "aborted"} THEN Rollback(db) ELSE db

\* return {"status": "error", "message": "Failed to create data mart
\* connector"}, 500
Error500 ==
    [status |-> "error", message |-> "Failed to create data mart connector",
     code |-> 500]

\* message of the success return (the names it lists are left out)
SuccessMessage(create, dropped) ==
    IF create THEN "Primary key created for columns"
    ELSE IF dropped # <<>> THEN "Dropped primary key constraint(s)"
    ELSE "No primary key found to drop"

\* return {"status": "success", "message": message}, 200
Success200(message) ==
    [status |-> "success", message |-> message, code |-> 200]

\* Where the try block goes on after _drop_existing_constraints has dropped
\* the constraints before index i.
AfterDrop(found, i, create) ==
    IF i <= Len(found) THEN "drop"
    ELSE IF create THEN "add" ELSE "commit"

KeysInit ==
    /\ pkcall \in KeyCalls
    /\ pkpc = "called"
    /\ pkconn = "none" /\ pkcursor = "none"
    /\ pkdb \in {Database(had) : had \in ExistingKeys}
    /\ pkfound = [constraints |-> <<>>, next |-> 1]
    /\ pkret = <<>>
    /\ pkfailed = "none"
    /\ NonKeysIdle

\* A call of the try block raises: control goes to the except clause.
KeysRaise(step) ==
    /\ pkfailed' = step
    /\ pkpc' = "except"

\* if create and not columns: logger.error(...); return {...}, 500
CheckColumns ==
    /\ pkpc = "called"
    /\ IF pkcall.create /\ pkcall.columns = <<>>
       THEN /\ pkret' = <<Error500>>
            /\ pkpc' = "returned"
       ELSE /\ pkpc' = "connect"
            /\ UNCHANGED pkret
    /\ UNCHANGED <<pkcall, pkconn, pkcursor, pkdb, pkfound, pkfailed>>
    /\ UNCHANGED NonKeys

\* conn = self.get_connection()
KeysConnect ==
    /\ pkpc = "connect"
    /\ \/ /\ pkconn' = "open"
          /\ pkpc' = "cursor"
          /\ UNCHANGED pkfailed
       \/ /\ KeysRaise("connect")
          /\ UNCHANGED pkconn
    /\ UNCHANGED <<pkcall, pkcursor, pkdb, pkfound, pkret>>
    /\ UNCHANGED NonKeys

\* cursor = conn.cursor()
KeysCursor ==
    /\ pkpc = "cursor"
    /\ \/ /\ pkcursor' = "open"
          /\ pkpc' = "select"
          /\ UNCHANGED pkfailed
       \/ /\ KeysRaise("cursor")
          /\ UNCHANGED pkcursor
    /\ UNCHANGED <<pkcall, pkconn, pkdb, pkfound, pkret>>
    /\ UNCHANGED NonKeys

\* _drop_existing_constraints: cursor.execute("SELECT constraint_name FROM
\* information_schema.table_constraints ..."); constraints = [row[0] for row
\* in cursor.fetchall()].  The first execute opens the transaction.
SelectConstraints ==
    /\ pkpc = "select"
    /\ \/ \E rows \in Orders({c.name : c \in pkdb.working}) :
            /\ pkfound' = [constraints |-> rows, next |-> 1]
            /\ pkdb' = [pkdb EXCEPT !.txn = "open"]
            /\ pkpc' = AfterDrop(rows, 1, pkcall.create)
            /\ UNCHANGED pkfailed
       \/ /\ KeysRaise("select")
          /\ pkdb' = [pkdb EXCEPT !.txn = "aborted"]
          /\ UNCHANGED pkfound
    /\ UNCHANGED <<pkcall, pkconn, pkcursor, pkret>>
    /\ UNCHANGED NonKeys

\* for existing_constraint in constraints: cursor.execute(drop_sql)
DropExisting ==
    /\ pkpc = "drop"
    /\ \/ /\ pkdb' = DropConstraint(pkdb, pkfound.constraints[pkfound.next])
          /\ pkfound' = [pkfound EXCEPT !.next = @ + 1]
          /\ pkpc' = AfterDrop(pkfound.constraints, pkfound.next + 1,
                               pkcall.create)
          /\ UNCHANGED pkfailed
       \/ /\ KeysRaise("drop")
          /\ pkdb' = [pkdb EXCEPT !.txn = "aborted"]
          /\ UNCHANGED pkfound
    /\ UNCHANGED <<pkcall, pkconn, pkcursor, pkret>>
    /\ UNCHANGED NonKeys

\* cursor.execute(create_sql)
AddPrimaryKey ==
    /\ pkpc = "add"
    /\ \/ /\ pkdb' = AddConstraint(pkdb, constraint_name, pkcall.columns)
          /\ pkpc' = "commit"
          /\ UNCHANGED pkfailed
       \/ /\ KeysRaise("add")
          /\ pkdb' = [pkdb EXCEPT !.txn = "aborted"]
    /\ UNCHANGED <<pkcall, pkconn, pkcursor, pkfound, pkret>>
    /\ UNCHANGED NonKeys

\* conn.commit(); return {"status": "success", "message": message}, 200
CommitKeys ==
    /\ pkpc = "commit"
    /\ \/ /\ pkdb' = Commit(pkdb)
          /\ pkret' = <<Success200(SuccessMessage(pkcall.create,
                                                  pkfound.constraints))>>
          /\ pkpc' = "finally"
          /\ UNCHANGED pkfailed
       \/ /\ KeysRaise("commit")
          /\ pkdb' = [pkdb EXCEPT !.txn = "aborted"]
          /\ UNCHANGED pkret
    /\ UNCHANGED <<pkcall, pkconn, pkcursor, pkfound>>
    /\ UNCHANGED NonKeys

\* except Exception as e: logger.error(...)
\*     if conn: conn.rollback()
\*     return {"status": "error", ...}, 500
KeysExcept ==
    /\ pkpc = "except"
    /\ pkdb' = IF pkconn = "open" THEN Rollback(pkdb) ELSE pkdb
    /\ pkret' = <<Error500>>
    /\ pkpc' = "finally"
    /\ UNCHANGED <<pkcall, pkconn, pkcursor, pkfound, pkfailed>>
    /\ UNCHANGED NonKeys

\* finally: if cursor: cursor.close(); if conn: conn.close()
KeysFinally ==
    /\ pkpc = "finally"
    /\ pkcursor' = Finally(pkcursor)
    /\ pkconn' = Finally(pkconn)
    /\ pkdb' = IF pkconn = "open" THEN CloseConnection(pkdb) ELSE pkdb
    /\ pkpc' = "returned"
    /\ UNCHANGED <<pkcall, pkfound, pkret, pkfailed>>
    /\ UNCHANGED NonKeys

KeysNext ==
    \/ CheckColumns \/ KeysConnect \/ KeysCursor \/ SelectConstraints
    \/ DropExisting \/ AddPrimaryKey \/ CommitKeys \/ KeysExcept
    \/ KeysFinally

SpecKeys == KeysInit /\ [][KeysNext]_vars

-----------------------------------------------------------------------------
(* Claims about the generators *)

\* C1: every execution of the delta query of fetch_deltas, in each dialect,
\* returns at most one row per primary key, that row is the most recent row
\* of its key newer than the watermark, and its Date_operation is strictly
\* greater than the watermark.
C1_DeltaOneRowPerKey ==
    mode = "deltas" =>
        /\ \A i, j \in DOMAIN buffer :
              i # j => buffer[i].pk # buffer[j].pk
        /\ \A i \in DOMAIN buffer :
              /\ buffer[i].ts > since_ts
              /\ \A x \in table :
                    (x.pk = buffer[i].pk /\ x.ts > since_ts)
                        => x.ts <= buffer[i].ts

\* C3: within one fetch_deltas stream the offsets of the executions are
\* 0, batch_size, 2*batch_size, ... and no row is yielded twice.
C3_ChunksNeverOverlap ==
    mode = "deltas" =>
        /\ \A i \in DOMAIN execs : execs[i] = (i - 1) * batch_size
        /\ \A i, j \in DOMAIN yielded : i # j => yielded[i] # yielded[j]

RECURSIVE Flatten(_)
Flatten(chunks) ==
    IF chunks = <<>> THEN <<>> ELSE Head(chunks) \o Flatten(Tail(chunks))

NoDuplicates(s) == \A i, j \in DOMAIN s : i # j => s[i] # s[j]

\* C6: stream_batch executes one SELECT over the table and no offset-based
\* query; every yielded chunk is non-empty and has at most batch_size rows;
\* the chunks are consecutive pieces of the scan, in scan order, without a
\* repeated row; and when the scan is exhausted their concatenation is the
\* full scan result.
C6_StreamIsOneForwardScan ==
    mode = "stream" =>
        /\ Len(execs) <= 1
        /\ \A i \in DOMAIN execs : execs[i] = "scan"
        /\ \A i \in DOMAIN yielded :
              yielded[i] # <<>> /\ Len(yielded[i]) <= batch_size
        /\ Flatten(yielded) \o buffer = SubSeq(scan, 1, spos)
        /\ NoDuplicates(Flatten(yielded))
        /\ (gpc = "done" /\ gerror = "none") =>
              /\ Flatten(yielded) = scan
              /\ Range(scan) = table
              /\ Len(execs) = 1

\* A scan of three rows read to its end in chunks of two: a full chunk, then
\* a short one.
C6_Witness ==
    /\ mode = "stream" /\ gpc = "done" /\ gerror = "none"
    /\ batch_size = 2 /\ Cardinality(table) = 3
    /\ Len(yielded) = 2 /\ Len(yielded[2]) = 1

\* C7: in stream_batch and fetch_deltas the number of chunks fetched exceeds
\* the number of chunks fully handed to the consumer by at most one, and no
\* query is executed and nothing is fetched unless a request of the consumer
\* is pending.
C7_ProducerOnDemand ==
    [][/\ fetched' - handed' \in {0, 1}
       /\ gpc # "running" =>
             /\ execs' = execs
             /\ fetches' = fetches
             /\ fetched' = fetched]_vars

\* The consumer has stopped after its first chunk while rows remain unread.
C7_Witness ==
    /\ gpc = "closed" /\ handed = 1 /\ fetched = 1
    /\ \/ mode = "stream" /\ spos < Len(scan)
       \/ mode = "deltas" /\ Cardinality({r.pk : r \in NewerThan(since_ts)})
                                > batch_size

-----------------------------------------------------------------------------
(* Claims about the type catalog *)

\* What each lookup returns for a type that its table does not list.
Fallback(f, x) ==
    CASE f = "cast_informix_to_typescript_types" -> "unknown"
      [] f = "cast_postgres_to_typescript" ->
             IF x = "USER-DEFINED" THEN "string" ELSE "any"
      [] f = "cast_sqlserver_to_typescript_types" -> "any"

-----------------------------------------------------------------------------
(* Claims about the operations that use a connection *)

Finished == cst \in {"returned", "raised"}
GenFinished == gpc \in {"done", "raised", "closed"}

\* C4: every operation that opens its own connection has closed every
\* connection and cursor it opened by the time it returns or raises, on
\* every exit path (a failure of the first execute or of the cursor
\* creation included); the same for the Postgres stream_batch generator.
C4_NothingLeftOpen ==
    /\ Finished => conn # "open" /\ cursor # "open"
    /\ GenFinished => gconn # "open" /\ gcursor # "open"

\* The collaborator calls that run a query.
QuerySteps == {"connexec", "execute", "fetch", "dbinfo", "colquery"}

\* C5: when the collaborator fails while a batch, stream, count or schema
\* query is executed, the caller gets that failure as it was raised: no
\* normal value (empty list, 0, a stream that just ends) and no other
\* exception in its place.
C5_FailurePropagatedUnmodified ==
    /\ (Finished /\ failedAt \in QuerySteps
           /\ OpShape(op).kind \in {"batch", "count", "schema"})
         => outcome = "original"
    /\ (mode = "stream" /\ gerror # "none") => gerror = "propagated"

\* The column whose descriptor cannot be built.
Unmappable(d, row) == DescriptorType(d, row) = "RAISE"

\* C8: when extract_table_schema has read the catalog rows of a table, the
\* descriptor of every column that can be mapped is returned, whether or
\* not another column of the table fails to map.
C8_BadColumnSkipped ==
    (Finished /\ op \in SchemaOps /\ failedAt = "none")
    => \A i \in DOMAIN columns :
          ~Unmappable(OpDialect(op), columns[i])
          => \E j \in DOMAIN result :
                Lower(result[j].name) = Lower(columns[i].name)

-----------------------------------------------------------------------------
(* Claims about the text of the batch reads *)

\* sub occurs in q at position i
OccursAt(q, sub, i) ==
    /\ i + Len(sub) - 1 <= Len(q)
    /\ \A k \in 1..Len(sub) : q[i + k - 1] = sub[k]

PageWords(d) ==
    CASE d = "informix" -> {"SKIP", "FIRST"}
      [] d = "postgres" -> {"OFFSET", "LIMIT"}
      [] d = "sqlserver" -> {"OFFSET", "ROWS", "FETCH", "NEXT", "ONLY"}

ForeignWords(d) == UNION {PageWords(e) : e \in Dialects} \ PageWords(d)

\* C9: the text of each dialect's batch read holds the pagination idiom of
\* its own dialect with the caller's offset and limit (Informix right after
\* SELECT and before *, SQL Server after an ORDER BY), and no pagination
\* word of another dialect.
C9_OwnPaginationIdiom ==
    bquery # <<>> =>
      LET o == ToString(bcall.offset)
          l == ToString(bcall.limit)
      IN /\ Range(bquery) \cap ForeignWords(bcall.dialect) = {}
         /\ CASE bcall.dialect = "informix" ->
                   OccursAt(bquery, <<"SELECT", "SKIP", o, "FIRST", l, "*">>,
                            1)
              [] bcall.dialect = "postgres" ->
                   \E i \in DOMAIN bquery :
                      OccursAt(bquery, <<"OFFSET", o, "LIMIT", l>>, i)
              [] bcall.dialect = "sqlserver" ->
                   \E i \in DOMAIN bquery : \E j \in 1..(i - 1) :
                      /\ OccursAt(bquery, <<"ORDER", "BY">>, j)
                      /\ OccursAt(bquery,
                                  <<"OFFSET", o, "ROWS", "FETCH", "NEXT", l,
                                    "ROWS", "ONLY">>, i)

C9_Witness ==
    /\ bquery # <<>>
    /\ bcall.dialect = "postgres" /\ bcall.method = "extract_data_batch"
    /\ bcall.offset = 2 /\ bcall.limit = 1
    /\ bcall.filters.items # <<>>

-----------------------------------------------------------------------------
(* Claims about build_query *)

\* C2: build_query called with a description whose baseTable is missing,
\* None or empty returns None (no SQL), whatever the other fields hold.
C2_NoBaseTableNoSql ==
    (qsql.ret # "pending" /\ ~Truthy(Get(qdata, "baseTable", NoneStr)))
    => qsql = NoSql

C2_Witness ==
    /\ qsql = NoSql
    /\ "baseTable" \notin DOMAIN qdata
    /\ "selectedFields" \in DOMAIN qdata
    /\ qdata.whereConditions # <<>>
    /\ ~CompileRaises(qdata)

-----------------------------------------------------------------------------
(* Claims about the DDL type mappings *)

\* The PostgreSQL types the two tables list, and the default.
DdlTypes ==
    Range(informix_to_pg) \cup Range(sql_server_to_pg) \cup {"TEXT"}

\* None in the place of a type identifier.
NoIdentifier(f) ==
    IF f = "cast_informix_to_postgresql_type" THEN NoneInt ELSE NoneStr

\* C11: cast_informix_to_postgresql_type and
\* cast_sqlserver_to_postgresql_type return a non-empty PostgreSQL type for
\* every type identifier (an integer code, a type name), listed in their
\* table or not, and never raise.
C11_DdlMappingTotal ==
    (tfun \in DdlLookups /\ targ # NoIdentifier(tfun))
    => \A i \in DOMAIN tres : tres[i] \in DdlTypes /\ tres[i] # ""

\* An SQL Server type name that the table does not list has been mapped.
C11_Witness ==
    /\ tfun = "cast_sqlserver_to_postgresql_type"
    /\ targ = "mytype"
    /\ tres = <<"TEXT", "TEXT">>

\* The description has a base table and nothing else: every other key is
\* missing or holds an empty list.
OnlyBaseTable(data) ==
    /\ Truthy(Get(data, "baseTable", NoneStr))
    /\ \A key \in {"selectedFields", "joins", "whereConditions",
                   "groupByFields", "having"} : Get(data, key, <<>>) = <<>>

\* C12: compiling a description that has only a baseTable returns
\* SELECT * / FROM <table> and no JOIN, WHERE, GROUP BY or HAVING text,
\* with invert_where set or not.
C12_OnlyBaseTableIsSelectStar ==
    (qsql.ret # "pending" /\ OnlyBaseTable(qdata))
    => qsql = [ret |-> "sql",
               lines |-> <<<<"SELECT", "*">>, <<"FROM", qdata.baseTable>>>>]

C12_Witness ==
    /\ qsql.ret = "sql"
    /\ qdata = [baseTable |-> "t"]
    /\ qinvert

\* The place of a clause in the order SELECT, FROM, JOIN, WHERE, GROUP BY,
\* HAVING, by its first word (0 for an empty line).
ClauseRank(line) ==
    IF line = <<>> THEN 0
    ELSE CASE line[1] = "SELECT" -> 1
           [] line[1] = "FROM" -> 2
           [] line[1] \in {"INNER", "LEFT", "RIGHT"} -> 3
           [] line[1] = "WHERE" -> 4
           [] line[1] = "GROUP" -> 5
           [] line[1] = "HAVING" -> 6
           [] OTHER -> 0

\* The k-th clause fragment of a description.
Fragment(data, invert, k) ==
    CASE k = 1 -> _build_select_clause(Get(data, "selectedFields", <<>>))
      [] k = 2 -> <<"FROM", Fmt(Get(data, "baseTable", NoneStr))>>
      [] k = 3 -> _build_joins_clause(Get(data, "baseTable", NoneStr),
                                      Get(data, "joins", <<>>))
      [] k = 4 -> _build_where_clause(Get(data, "whereConditions", <<>>),
                                      invert)
      [] k = 5 -> _build_group_by(Get(data, "groupByFields", <<>>))
      [] k = 6 -> _build_having_clause(Get(data, "having", <<>>))

\* C13: the SQL build_query returns has no empty line; its lines are
\* clause fragments in the order SELECT, FROM, JOIN, WHERE, GROUP BY, HAVING,
\* each at most once; a fragment is a line of it exactly when it is not
\* empty.
C13_ClausesInFixedOrder ==
    qsql.ret = "sql" =>
      /\ \A i \in DOMAIN qsql.lines : ClauseRank(qsql.lines[i]) > 0
      /\ \A i \in DOMAIN qsql.lines : \A j \in DOMAIN qsql.lines :
            i < j => ClauseRank(qsql.lines[i]) < ClauseRank(qsql.lines[j])
      /\ \A k \in 1..6 :
            IF Fragment(qdata, qinvert, k) = <<>>
            THEN \A i \in DOMAIN qsql.lines : ClauseRank(qsql.lines[i]) # k
            ELSE \E i \in DOMAIN qsql.lines :
                    qsql.lines[i] = Fragment(qdata, qinvert, k)

\* A description with some clauses empty and some not.
C13_Witness ==
    /\ qsql.ret = "sql"
    /\ Len(qsql.lines) = 4
    /\ ClauseRank(qsql.lines[3]) = 3 /\ ClauseRank(qsql.lines[4]) = 6

-----------------------------------------------------------------------------
(* Claims about the clause builders *)

\* C14: for the where builder of both modules and every list of
\* conditions: inverted, it returns WHERE NOT ( B ) where WHERE B is what it
\* returns plain (one NOT (...) around the unchanged body); for the empty
\* list it returns the empty text both ways.
C14_InvertWrapsOnce ==
    (kcall.builder = "_build_where_clause" /\ Len(kres) = 2)
    => LET plain == kres[1]
           inverted == kres[2]
       IN /\ inverted.raised = plain.raised
          /\ ~plain.raised =>
               IF kcall.items = <<>>
               THEN plain.text = <<>> /\ inverted.text = <<>>
               ELSE /\ Len(plain.text) > 1 /\ plain.text[1] = "WHERE"
                    /\ inverted.text
                         = <<"WHERE", "NOT", "(">> \o Tail(plain.text)
                           \o <<")">>

C14_Witness ==
    /\ kcall.builder = "_build_where_clause" /\ kcall.module = "informix"
    /\ Len(kcall.items) = 2
    /\ Len(kres) = 2 /\ ~kres[2].raised
    /\ kres[2].text[2] = "NOT"

\* The connector put before condition i of a list: none before the first,
\* else the one stored on condition i - 1 (AND when it stores none),
\* upper-cased in a JOIN.
ConnectorBefore(items, i, upper) ==
    IF i = 1 THEN <<>>
    ELSE LET stored == Get(items[i - 1], "connector", "AND")
         IN <<IF upper THEN UpperWord(stored) ELSE Fmt(stored)>>

\* The text of one where or having condition: what the builder returns for
\* the condition alone, after the keyword (nothing for a skipped one).
AloneText(m, b, item) ==
    LET text == ClauseText(m, b, <<item>>, FALSE)
    IN IF text = <<>> THEN <<>> ELSE Tail(text)

\* The text of condition i of a join: the ON body of the join with that
\* condition alone.
AloneOnText(m, join, i) ==
    LET text == ClauseText(m, "_build_joins_clause",
                           <<[join EXCEPT !.conditions = <<join.conditions[i]>>]>>,
                           FALSE)
    IN SubSeq(text, 5, Len(text))

\* The conditions in input order, each emitted one after the connector
\* before it.
FoldConditions(items, text(_), upper) ==
    SqlJoin([i \in DOMAIN items |->
                IF text(i) = <<>> THEN <<>>
                ELSE ConnectorBefore(items, i, upper) \o text(i)], <<>>)

\* C15: in the WHERE and HAVING text and in the ON text of a join, of both
\* modules, the conditions come in input order; an emitted condition i > 0
\* comes after the connector stored on condition i - 1 (AND by default),
\* never its own, the first condition after none, the connector of the last
\* condition is not emitted, and a JOIN connector is upper-cased.
C15_ConnectorOfPreviousCondition ==
    (kres # <<>> /\ ~kres[1].raised /\ kres[1].text # <<>>) =>
      LET m == kcall.module
          b == kcall.builder
          items == kcall.items
          text == kres[1].text
      IN CASE b \in {"_build_where_clause", "_build_having_clause"} ->
                Tail(text)
                  = FoldConditions(items,
                                   LAMBDA i : AloneText(m, b, items[i]), FALSE)
           [] b = "_build_joins_clause" /\ Len(items) = 1 ->
                SubSeq(text, 5, Len(text))
                  = FoldConditions(items[1].conditions,
                                   LAMBDA i : AloneOnText(m, items[1], i), TRUE)
           [] OTHER -> TRUE

\* A join of two conditions: the connector "or" of the first one is emitted
\* upper-cased before the second one.
C15_Witness ==
    /\ kcall.builder = "_build_joins_clause"
    /\ kres # <<>>
    /\ kres[1].text = <<"LEFT", "JOIN", "customers", "ON",
                        "orders.cust", "=", "customers.id", "OR",
                        "orders.region", "=", "customers.region">>

-----------------------------------------------------------------------------
(* Claims about the completeness of the compiled SQL *)

Connectors == {"AND", "OR", "and", "or"}

\* The words that begin a join in a JOIN line.
JoinWords == {"INNER", "LEFT", "RIGHT"}

\* The ON at position p of a JOIN line is followed by a condition.
OnBodyComplete(line, p) ==
    /\ p < Len(line)
    /\ line[p + 1] \notin JoinWords \cup Connectors

\* A clause of the SQL is complete: a body after every ON, WHERE and HAVING
\* that does not begin with a connector, a column after GROUP BY.
CompleteClause(line) ==
    CASE ClauseRank(line) = 3 ->
           \A p \in DOMAIN line : line[p] = "ON" => OnBodyComplete(line, p)
      [] ClauseRank(line) = 4 ->
           IF Len(line) > 1 /\ line[2] = "NOT"
           THEN Len(line) > 4 /\ line[4] \notin Connectors
           ELSE Len(line) > 1 /\ line[2] \notin Connectors
      [] ClauseRank(line) = 5 -> Len(line) > 2
      [] ClauseRank(line) = 6 -> Len(line) > 1 /\ line[2] \notin Connectors
      [] OTHER -> TRUE

\* C16: the SQL build_query returns is complete: every JOIN has a non-empty
\* ON body, every GROUP BY lists a column, and no ON, WHERE or HAVING body
\* begins with a connector, also when join conditions without
\* sourceField/targetField, having conditions without operator or group-by
\* entries without field are skipped.
C16_SqlIsComplete ==
    qsql.ret = "sql" =>
      \A i \in DOMAIN qsql.lines : CompleteClause(qsql.lines[i])

-----------------------------------------------------------------------------
(* Claims about the validation of conditions *)

\* The where and having conditions of a description that compare with a
\* value.
ValueConditions(data) ==
    {c \in {Get(data, "whereConditions", <<>>)[i] :
               i \in DOMAIN Get(data, "whereConditions", <<>>)} :
        Get(c, "comparisonType", "VALUE") # "COLUMN"}
    \cup {Get(data, "having", <<>>)[i] : i \in DOMAIN Get(data, "having", <<>>)}

\* A BETWEEN or NOT BETWEEN condition without its value or its secondValue.
MissingBound(c) ==
    /\ Get(c, "operator", "=") \in BetweenOps
    /\ \/ Get(c, "value", PyNone).t = "none"
       \/ Get(c, "secondValue", PyNone).t = "none"

\* C17: build_query returns no SQL for a description with a where or having
\* condition whose operator is BETWEEN or NOT BETWEEN and whose value or
\* secondValue is missing.
C17_BetweenNeedsBothBounds ==
    (qsql.ret # "pending" /\ \E c \in ValueConditions(qdata) : MissingBound(c))
    => qsql.ret = "None"

\* C18: build_query returns no SQL for a description with a where or having
\* condition whose operator is not a value of QueryOperator.
C18_UnsupportedOperatorRejected ==
    (qsql.ret # "pending"
     /\ \E c \in ValueConditions(qdata) :
           Get(c, "operator", "=") \notin QueryOperator)
    => qsql.ret = "None"

-----------------------------------------------------------------------------
(* Claims about the join type *)

\* The join has a joinType other than INNER, LEFT and RIGHT in any letter
\* case, or none.
OtherJoinType(join) ==
    "joinType" \in DOMAIN join =>
       /\ join.joinType # NoneStr
       /\ UpperWord(join.joinType) \notin JoinWords

\* The join with INNER as its joinType.
AsInner(join) ==
    [joinType |-> "INNER", targetTable |-> join.targetTable,
     conditions |-> join.conditions]

\* C19: in both modules a join with a target table and conditions whose
\* joinType is not INNER, LEFT or RIGHT in any letter case, or is absent, is
\* not rejected and not dropped: it is emitted as INNER JOIN <target> ON
\* followed by its conditions, as the same join with joinType INNER is.
C19_OtherJoinTypeIsInner ==
    (/\ kres # <<>>
     /\ kcall.builder = "_build_joins_clause"
     /\ Len(kcall.items) = 1
     /\ OtherJoinType(kcall.items[1])
     /\ Truthy(kcall.items[1].targetTable)
     /\ kcall.items[1].conditions # <<>>)
    => /\ ~kres[1].raised
       /\ SubSeq(kres[1].text, 1, 4)
            = <<"INNER", "JOIN", kcall.items[1].targetTable, "ON">>
       /\ kres[1].text
            = ClauseText(kcall.module, kcall.builder,
                         <<AsInner(kcall.items[1])>>, FALSE)

\* A FULL join has been emitted by the Informix module.
C19_Witness ==
    /\ kcall.module = "informix"
    /\ kcall.builder = "_build_joins_clause"
    /\ Len(kcall.items) = 1
    /\ "joinType" \in DOMAIN kcall.items[1]
    /\ kcall.items[1].joinType = "FULL"
    /\ kres # <<>>
    /\ kres[1].text = <<"INNER", "JOIN", "customers", "ON",
                        "orders.cust", "=", "customers.id">>

-----------------------------------------------------------------------------
(* Claims about the select clause *)

\* The selectType tag of an aggregate, in the letter cases used here.
AggregateTags == {"AGGREGATE", "Aggregate", "aggregate"}

\* The aggregate functions that are applied as FN(column).
PlainAggregates == {"SUM", "sum", "COUNT", "count"}

\* C20: in the SQL build_query returns, a selected field with selectType
\* Aggregate, in any letter case, and an aggregate function FN is emitted as
\* FN(column); so baseTable orders with the fields id and amt (aggregate
\* SUM, selectType Aggregate) gives SELECT id, SUM(amt) and FROM orders.
C20_AggregateInAnyCase ==
    qsql.ret = "sql" =>
      \A i \in DOMAIN Get(qdata, "selectedFields", <<>>) :
         LET field == qdata.selectedFields[i]
         IN (/\ Get(field, "selectType", NoneStr) \in AggregateTags
             /\ Get(field, "aggregate", NoneStr) \in PlainAggregates
             /\ ~Get(field, "isCountAll", FALSE))
            => /\ \E p \in DOMAIN qsql.lines[1] :
                     qsql.lines[1][p]
                       = UpperWord(field.aggregate) \o "("
                         \o ColumnRef(Get(field, "table", ""),
                                      Get(field, "field", "")) \o ")"
               /\ qsql.lines[2] = <<"FROM", qdata.baseTable>>

\* The field is an aggregate one (selectType AGGREGATE in a select clause,
\* isAggregation in a having clause) with isCountAll set.
CountAllField(b, field) ==
    /\ Get(field, "isCountAll", FALSE)
    /\ IF b = "_build_select_clause"
       THEN Get(field, "selectType", NoneStr) = "AGGREGATE"
       ELSE Get(field, "isAggregation", FALSE)

\* C21: in the select clause and on the left of a having condition, of both
\* modules, an aggregate field with isCountAll set is emitted as COUNT(*),
\* whatever its aggregate is: COUNT(DISTINCT), DISTINCT, another function or
\* none.
C21_CountAllFirst ==
    (/\ kres # <<>> /\ ~kres[1].raised
     /\ kcall.builder \in {"_build_select_clause", "_build_having_clause"})
    => \A i \in DOMAIN kcall.items :
          CountAllField(kcall.builder, kcall.items[i])
          => ClauseText(kcall.module, kcall.builder, <<kcall.items[i]>>,
                        FALSE)[2] = "COUNT(*)"

-----------------------------------------------------------------------------
(* Claims about the literals of a condition *)

\* The operators that take one string value.
StringOperators ==
    {"=", "!=", ">", "<", ">=", "<=", "CONTAINS", "NOT CONTAIN",
     "STARTS WITH", "ENDS WITH", "MATCHES", "NOT MATCHES", "LIST CONTAINS"}

\* A where builder has been called on one condition that compares a field
\* with a value, and has returned.
OneConditionBuilt ==
    /\ kres # <<>> /\ ~kres[1].raised
    /\ kcall.builder = "_build_where_clause"
    /\ Len(kcall.items) = 1
    /\ Get(kcall.items[1], "comparisonType", "VALUE") # "COLUMN"

\* A string between single quotes with its single quotes doubled, after
\* and before the wildcards of the operator.
QuotedString(operator, chars) ==
    CASE operator \in {"CONTAINS", "NOT CONTAIN"} ->
           "'%" \o Escaped(chars) \o "%'"
      [] operator = "STARTS WITH" -> "'" \o Escaped(chars) \o "%'"
      [] operator = "ENDS WITH" -> "'%" \o Escaped(chars) \o "'"
      [] OTHER -> "'" \o Escaped(chars) \o "'"

\* The elements of a list, each a quoted string with its quotes doubled.
QuotedElements(items) ==
    StrJoin([i \in DOMAIN items |->
                "'" \o (IF items[i].t = "str" THEN Escaped(items[i].s)
                        ELSE PyStr(items[i])) \o "'"], ", ")

\* C22: a string value that a where builder of either module puts between
\* single quotes has every single quote of it doubled: the value of =, !=,
\* the comparisons, CONTAINS, NOT CONTAIN, STARTS WITH, ENDS WITH, MATCHES,
\* NOT MATCHES and LIST CONTAINS, and every element of the list of IN and
\* NOT IN.
C22_QuotesDoubled ==
    OneConditionBuilt =>
      LET c == kcall.items[1]
          operator == Get(c, "operator", "=")
          value == Get(c, "value", PyNone)
          value_type == Get(c, "valueType", "string")
          text == kres[1].text
      IN /\ (operator \in StringOperators /\ value.t = "str"
              /\ value_type = "string")
            => \E p \in DOMAIN text :
                  text[p] = QuotedString(operator, value.s)
         /\ (operator \in {"IN", "NOT IN"} /\ value.t = "list"
              /\ value.items # <<>> /\ value_type = "list")
            => \E p \in DOMAIN text :
                  text[p] = "(" \o QuotedElements(value.items) \o ")"

\* The literal of one value by the formatter of the module.
Literal(m, value, value_type) ==
    IF m = "postgres" THEN _format_value(value, value_type)
    ELSE informix_format_value(value, value_type)

\* C23: for IN and NOT IN with a non-empty list value, the where builders
\* of both modules emit <field> IN (l1, l2, ...) where li is the literal of
\* the i-th element of the list formatted by the valueType of the condition
\* (number, string, ...).
C23_InListOfLiterals ==
    OneConditionBuilt =>
      LET c == kcall.items[1]
          operator == Get(c, "operator", "=")
          value == Get(c, "value", PyNone)
          value_type == Get(c, "valueType", "string")
      IN (/\ operator \in {"IN", "NOT IN"}
          /\ value.t = "list" /\ value.items # <<>>
          /\ value_type \notin ListTypes)
         => kres[1].text
              = <<"WHERE", c.field, operator,
                  "(" \o StrJoin([i \in DOMAIN value.items |->
                                     Literal(kcall.module, value.items[i],
                                             value_type)], ", ") \o ")">>

\* The words of a text: an empty literal leaves only a blank.
Words(text) == SelectSeq(text, LAMBDA w : w # "")

\* C24: for IS NULL and IS NOT NULL the where builders of both modules emit
\* the field reference and the operator and no literal, with or without a
\* value or secondValue in the condition.
C24_NullTestsTakeNoLiteral ==
    (OneConditionBuilt
     /\ Get(kcall.items[1], "operator", "=") \in {"IS NULL", "IS NOT NULL"})
    => Words(kres[1].text)
         = <<"WHERE", kcall.items[1].field, kcall.items[1].operator>>

\* C25: for BETWEEN and NOT BETWEEN with both bounds present the where
\* builders of both modules emit <field> [NOT] BETWEEN <literal of value>
\* AND <literal of secondValue>, both literals formatted by the valueType of
\* the condition, in that order; so field age, BETWEEN, 18, 65, number gives
\* WHERE age BETWEEN 18 AND 65.
C25_BetweenBothBounds ==
    OneConditionBuilt =>
      LET c == kcall.items[1]
          operator == Get(c, "operator", "=")
          value == Get(c, "value", PyNone)
          second_value == Get(c, "secondValue", PyNone)
          value_type == Get(c, "valueType", "string")
      IN (/\ operator \in BetweenOps
          /\ value.t # "none" /\ second_value.t # "none")
         => kres[1].text
              = <<"WHERE", c.field, operator,
                  Literal(kcall.module, value, value_type), "AND",
                  Literal(kcall.module, second_value, value_type)>>

\* The example: the condition on age has been built by the Postgres module.
C25_Witness ==
    /\ kcall.module = "postgres"
    /\ kcall.builder = "_build_where_clause"
    /\ kcall.items = <<[field |-> "age", operator |-> "BETWEEN",
                        value |-> PyN(18), secondValue |-> PyN(65),
                        valueType |-> "number", connector |-> "OR"]>>
    /\ kres # <<>>
    /\ kres[1].text = <<"WHERE", "age", "BETWEEN", "18", "AND", "65">>

-----------------------------------------------------------------------------
(* Claims about repeated compilation *)

\* C26: build_query calls with equal descriptions and the same invert flag
\* return the same SQL (or all None), whatever calls ran between them or at
\* the same time in another thread, and no call changes the description it
\* is given.
C26_CompilationIsDeterministic ==
    /\ \A x \in rdone : \A y \in rdone :
          (x.data = y.data /\ x.invert = y.invert) => x.sql = y.sql
    /\ \A x \in rdone : x.sql = build_query(x.data, x.invert)
    /\ rdescs = Described

\* Three calls of two threads have returned, one with SQL and one with
\* None.
C26_Witness ==
    /\ Cardinality(rdone) >= 2
    /\ \E x \in rdone : x.data = Described.a /\ x.sql.ret = "sql"
    /\ \E x \in rdone : x.data = Described.d /\ x.sql.ret = "None"
    /\ rthreads[1].calls = 2 /\ rthreads[2].calls = 1
    /\ rthreads[1].pc = 0 /\ rthreads[2].pc = 0

-----------------------------------------------------------------------------
(* Claims about the filters of a batch read *)

\* extract_data_batch of the Postgres connector has built its query.
FiltersBuilt ==
    /\ bquery # <<>>
    /\ bcall.dialect = "postgres" /\ bcall.method = "extract_data_batch"

\* The WHERE text in SELECT * FROM <table> <where> OFFSET <o> LIMIT <l> ;
WhereOf(query) == SubSeq(query, 5, Len(query) - 5)

CountPlaceholders(text) ==
    Cardinality({i \in DOMAIN text : text[i] = "%s"})

\* The filter has an invalid column, an unsupported operator, no value
\* where one is needed, a BETWEEN bound missing or an empty IN list.
Dropped(f) ==
    LET name == Get(Get(f, "column", <<>>), "name", NoneStr)
        raw == Get(f, "operator", NoneStr)
        key == IF raw \in {NoneStr, ""} THEN NoneStr ELSE OpKey(raw)
        value == Get(f, "value", PyNone)
    IN \/ ~ValidColumnName(name)
       \/ key \notin DOMAIN FilterOps \cup DOMAIN PatternOps
       \/ key \in {"BETWEEN", "NOT_BETWEEN"}
          /\ (value.t = "none" \/ Get(f, "valueTo", PyNone).t = "none")
       \/ key \in {"IN", "NOT_IN"}
          /\ (value.t = "none" \/ (value.t = "list" /\ value.items = <<>>))
       \/ key \notin {"BETWEEN", "NOT_BETWEEN", "IN", "NOT_IN", "IS_NULL",
                      "IS_NOT_NULL"}
          /\ value.t = "none"

\* C27: the WHERE text of _build_filters_clause has as many %s as there are
\* parameters, the parameters in the order of the clauses; every clause
\* begins with a valid column name between double quotes; a filter with an
\* invalid column, an unsupported operator, a missing value, a missing
\* BETWEEN bound or an empty IN list gives no clause and no parameter; and
\* when no filter survives the text is empty and there is no parameter.
C27_PlaceholdersMatchParams ==
    FiltersBuilt =>
      LET where == WhereOf(bquery)
          filters == ParsedFilters(bcall.filters)
          parts == [i \in DOMAIN filters |-> FilterClause(filters[i])]
          kept == SelectSeq(parts, LAMBDA c : c.clause # <<>>)
      IN /\ CountPlaceholders(where) = Len(bparams)
         /\ bparams = SqlJoin([i \in DOMAIN kept |-> kept[i].params], <<>>)
         /\ \A i \in DOMAIN kept :
               /\ CountPlaceholders(kept[i].clause) = Len(kept[i].params)
               /\ \E name \in {"status", "amt", "id", "_x1"} :
                     /\ ValidColumnName(name)
                     /\ kept[i].clause[1] = "\"" \o name \o "\""
         /\ where = IF kept = <<>> THEN <<>>
                    ELSE <<"WHERE">>
                         \o SqlJoin([i \in DOMAIN kept |-> kept[i].clause],
                                    <<"AND">>)
         /\ \A i \in DOMAIN filters :
               Dropped(filters[i]) => parts[i].clause = <<>>
         /\ (\A i \in DOMAIN filters : Dropped(filters[i]))
            => (where = <<>> /\ bparams = <<>>)

\* An IN filter on three values after a filter on an invalid column.
C27_Witness ==
    /\ FiltersBuilt
    /\ Len(bcall.filters.items) = 2
    /\ Get(Get(bcall.filters.items[1], "column", <<>>), "name", NoneStr)
         = "bad name"
    /\ WhereOf(bquery)
         = <<"WHERE", "\"id\"", "IN", "(", "%s", ",", "%s", ",", "%s", ")">>
    /\ bparams = <<PyN(1), PyN(2), PyN(3)>>

-----------------------------------------------------------------------------
(* Claims about the Informix type codes *)

\* C28: cast_informix_to_postgresql_type returns for every key of its table
\* (256, 258, 262, 263, 269, 2061, 4117 and 4118 among them) the type the
\* table lists for the key, and it agrees with
\* cast_informix_to_typescript_types on the codes that are known: a code
\* the TypeScript mapping does not know gets the default TEXT, one it knows
\* gets the entry of the table.
C28_InformixTablesAgree ==
    (tfun = "cast_informix_to_postgresql_type" /\ targ # NoneInt) =>
      \A i \in DOMAIN tres :
         /\ targ \in DOMAIN informix_to_pg => tres[i] = informix_to_pg[targ]
         /\ cast_informix_to_typescript_types(targ) = "unknown"
            => tres[i] = "TEXT"

-----------------------------------------------------------------------------
(* Claims about reading the deltas to the end *)

\* n: the number of rows of the delta result (the same for every execution
\* on an unchanging log table).
DeltaCount == Len(CHOOSE res \in DeltaResults(dialect, since_ts) : TRUE)

\* ceil(n / bs)
CeilDiv(n, bs) == (n + bs - 1) \div bs

\* C29: on an unchanging log table whose delta result has n rows,
\* fetch_deltas of each dialect with batch_size >= 1 never executes its query
\* more than ceil(n / batch_size) + 1 times; when it ends (at the first
\* execution that returns no rows, never on a short chunk) it has executed
\* the query exactly that often and has yielded every row of the delta
\* result exactly once, in the key order of the query.
C29_DeltasReadToTheEnd ==
    mode = "deltas" =>
        /\ Len(execs) <= CeilDiv(DeltaCount, batch_size) + 1
        /\ (gpc = "done" /\ gerror = "none") =>
              /\ Len(execs) = CeilDiv(DeltaCount, batch_size) + 1
              /\ yielded \in DeltaResults(dialect, since_ts)

-----------------------------------------------------------------------------
(* Claims about manage_table_primary_keys *)

====
